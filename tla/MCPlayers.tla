----------------------------- MODULE MCPlayers -----------------------------
(* The two players, one or the other in each behaviour: Mp3Player with a     *)
(* small buffer and a song whose last block is not full, Vs1053Player with a *)
(* small buffer and a song that ends inside a buffer.                        *)
EXTENDS Mp3Player, Vs1053Player

VARIABLE board

PlayersInit == board \in {"mp3", "vs1053"} /\ Init /\ VsInit

Mp3(next) == board = "mp3" /\ next /\ UNCHANGED <<board, vsVars>>

Vs1053(next) == board = "vs1053" /\ next /\ UNCHANGED <<board, vars>>

(* The fairness of each, see there. *)
PlayersSpec ==
  /\ PlayersInit /\ [][Mp3(Next) \/ Vs1053(VsNext)]_<<board, vars, vsVars>>
  /\ WF_vars(Mp3(RunStep)) /\ WF_vars(Mp3(SdStep)) /\ WF_vars(Mp3(ControlStep))
  /\ WF_vsVars(Vs1053(ReaderStep)) /\ SF_vsVars(Vs1053(OpenFile))
  /\ WF_vsVars(Vs1053(PlayerStep)) /\ WF_vsVars(Vs1053(SpiStep))
=============================================================================
