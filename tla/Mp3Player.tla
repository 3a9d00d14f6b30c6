----------------------------- MODULE Mp3Player -----------------------------
(***************************************************************************)
(* The tasks of the MP3 player, LPC40XX_MCU_RTOS/SPI_UART/main_mp3.c: run  *)
(* sends the buffer songptr to the decoder, mp3sdcard refills it from the  *)
(* card, music_control suspends and resumes both on the keys that rx_task  *)
(* takes from the UART.  All four have the same priority and share globals *)
(* without a lock, so a step is one access, or a run of accesses of which  *)
(* only one can be told by another task.                                   *)
(*                                                                         *)
(* Sizes are in blocks of 32 bytes, as mp3Size and lsize count them.  Of a *)
(* block that is being sent, the first and the last byte are kept apart.   *)
(*                                                                         *)
(* An operator with a suffix (_early, _missing...) is the faulty twin of   *)
(* the one below it; no action uses it.                                    *)
(***************************************************************************)
EXTENDS Integers, Sequences

CONSTANTS
  BLOCKS,    (* blocks of songptr, 16 in the program                        *)
  FILE,      (* blocks of the song, a last one that is not full included    *)
  WHOLE      (* blocks of the song that are full                            *)

ASSUME Mp3PlayerAssumption ==
  /\ BLOCKS \in Nat \ {0}
  /\ FILE \in Nat
  /\ WHOLE \in Nat /\ FILE - WHOLE \in {0, 1}

Tasks == {"run", "mp3sdcard"}
Keys == {"none", "p", "s"}
Silence == 0                     (* what songptr holds before any f_read    *)

VARIABLES
  songptr, songPos, mp3Size, lsize, sdready, play_music, input,
  suspended,       (* the tasks the scheduler holds back                    *)
  pc,              (* where each task stands                                *)
  cpc,             (* where music_control stands                            *)
  head, pos,       (* run: first byte of the block on the bus, loaded songPos *)
  readPos, slot,   (* mp3sdcard: blocks read from the file, next block of   *)
                   (* songptr to be filled by the f_read in progress        *)
  song_err,        (* the open file has met an error of the card            *)
  played           (* history: blocks sent since this song's first refill   *)

buffer == <<songptr, readPos, slot, song_err>>
ctl == <<play_music, input, cpc>>
runLocals == <<head, pos>>
vars == <<songptr, songPos, mp3Size, lsize, sdready, play_music, input, suspended,
          pc, cpc, head, pos, readPos, slot, song_err, played>>

Init ==
  /\ songptr = [b \in 0 .. BLOCKS - 1 |-> Silence]
  /\ songPos = 0 /\ mp3Size = 0 /\ lsize = 0
  /\ sdready = TRUE
  /\ play_music = FALSE /\ input = "none"
  /\ suspended = {}
  /\ pc = [t \in Tasks |-> "boot"]
  /\ cpc = "poll"
  /\ head = Silence /\ pos = 0
  /\ readPos = 0 /\ slot = 0 /\ song_err = FALSE
  /\ played = <<>>

Runs(t, from, to) == t \notin suspended /\ pc[t] = from /\ pc' = [pc EXCEPT ![t] = to]

(* vTaskSuspend(NULL), the first statement of both tasks. *)
Boot(t) ==
  /\ Runs(t, "boot", IF t = "run" THEN "outer" ELSE "open")
  /\ suspended' = suspended \cup {t}
  /\ UNCHANGED <<buffer, songPos, mp3Size, lsize, sdready, ctl, runLocals, played>>

(***************************************************************************)
(* run.                                                                    *)
(***************************************************************************)
Margin == 2 * BLOCKS

MorePlanned == mp3Size < lsize + Margin

Outer ==
  /\ Runs("run", "outer", IF MorePlanned THEN "inner" ELSE "returned")
  /\ UNCHANGED <<buffer, songPos, mp3Size, lsize, sdready, ctl, suspended, runLocals, played>>

MayTake_unready == songPos < BLOCKS

MayTake == songPos < BLOCKS /\ sdready

Inner ==
  /\ Runs("run", "inner", IF MayTake THEN "first" ELSE "outer")
  /\ UNCHANGED <<buffer, songPos, mp3Size, lsize, sdready, ctl, suspended, runLocals, played>>

(* After the decoder has raised DREQ. *)
SendFirst ==
  /\ Runs("run", "first", "last")
  /\ head' = songptr[songPos]
  /\ UNCHANGED <<buffer, songPos, mp3Size, lsize, sdready, ctl, suspended, pos, played>>

SendLast ==
  /\ Runs("run", "last", "load")
  /\ played' = Append(played, <<head, songptr[songPos]>>)
  /\ UNCHANGED <<buffer, songPos, mp3Size, lsize, sdready, ctl, suspended, runLocals>>

LoadPos ==
  /\ Runs("run", "load", "store")
  /\ pos' = songPos
  /\ UNCHANGED <<buffer, songPos, mp3Size, lsize, sdready, ctl, suspended, head, played>>

StorePos ==
  /\ Runs("run", "store", "test")
  /\ songPos' = pos + 1
  /\ UNCHANGED <<buffer, mp3Size, lsize, sdready, ctl, suspended, runLocals, played>>

BufferSent_early == songPos = BLOCKS - 1

BufferSent == songPos = BLOCKS

TestPos ==
  /\ Runs("run", "test", "inner")
  /\ sdready' = (sdready /\ ~BufferSent)
  /\ UNCHANGED <<buffer, songPos, mp3Size, lsize, ctl, suspended, runLocals, played>>

(***************************************************************************)
(* mp3sdcard.                                                              *)
(***************************************************************************)
(* f_open succeeds (when it fails, the task tries again a tick later), and    *)
(* the seeks to the end and back; or a seek meets an error on its way, and    *)
(* lsize is as far as it came.  Their results are not looked at.              *)
OpenSong ==
  /\ Runs("mp3sdcard", "open", "rewind")
  /\ \/ lsize' = WHOLE /\ song_err' = FALSE
     \/ lsize' \in 0 .. WHOLE /\ song_err' = TRUE
  /\ mp3Size' = 0
  /\ readPos' = 0
  /\ UNCHANGED <<songptr, slot, songPos, sdready, ctl, suspended, runLocals, played>>

RewindPos ==
  /\ Runs("mp3sdcard", "rewind", "read1")
  /\ songPos' = 0
  /\ slot' = 0
  /\ UNCHANGED <<songptr, readPos, song_err, mp3Size, lsize, sdready, ctl, suspended, runLocals,
                 played>>

(* f_read stops at the end of the file or at an error, and leaves the rest of *)
(* songptr; a file with an error is not read again until it is opened anew.   *)
ReadDone == slot = BLOCKS \/ readPos = FILE \/ song_err

ReadBlock(at) ==
  /\ Runs("mp3sdcard", at, at)
  /\ ~ReadDone
  /\ songptr' = [songptr EXCEPT ![slot] = readPos + 1]
  /\ readPos' = readPos + 1
  /\ slot' = slot + 1
  /\ UNCHANGED <<song_err, songPos, mp3Size, lsize, sdready, ctl, suspended, runLocals, played>>

ReadFails(at) ==
  /\ Runs("mp3sdcard", at, at)
  /\ ~ReadDone
  /\ song_err' = TRUE
  /\ UNCHANGED <<songptr, readPos, slot, songPos, mp3Size, lsize, sdready, ctl, suspended,
                 runLocals, played>>

FirstReadDone ==
  /\ Runs("mp3sdcard", "read1", "wait")
  /\ ReadDone
  /\ UNCHANGED <<buffer, songPos, mp3Size, lsize, sdready, ctl, suspended, runLocals, played>>

(* The history starts anew at the first refill of a song. *)
Refill ==
  /\ Runs("mp3sdcard", "wait", "read2")
  /\ MorePlanned
  /\ ~sdready
  /\ slot' = 0
  /\ played' = IF mp3Size = 0 THEN <<>> ELSE played
  /\ UNCHANGED <<songptr, readPos, song_err, songPos, mp3Size, lsize, sdready, ctl, suspended,
                 runLocals>>

CountBuffer_twice == mp3Size' = mp3Size + 2 * BLOCKS

CountBuffer == mp3Size' = mp3Size + BLOCKS

(* Whatever f_read has read, and whether it has failed. *)
RefillDone ==
  /\ Runs("mp3sdcard", "read2", "restart")
  /\ ReadDone
  /\ CountBuffer
  /\ UNCHANGED <<buffer, songPos, lsize, sdready, ctl, suspended, runLocals, played>>

RestartPos ==
  /\ Runs("mp3sdcard", "restart", "ready")
  /\ songPos' = 0
  /\ UNCHANGED <<buffer, mp3Size, lsize, sdready, ctl, suspended, runLocals, played>>

SetReady ==
  /\ Runs("mp3sdcard", "ready", "wait")
  /\ sdready' = TRUE
  /\ UNCHANGED <<buffer, songPos, mp3Size, lsize, ctl, suspended, runLocals, played>>

SongFinished ==
  /\ Runs("mp3sdcard", "wait", "finished")
  /\ ~MorePlanned
  /\ songPos' = 0
  /\ UNCHANGED <<buffer, mp3Size, lsize, sdready, ctl, suspended, runLocals, played>>

ForgetSize ==
  /\ Runs("mp3sdcard", "finished", "open")
  /\ mp3Size' = 0
  /\ UNCHANGED <<buffer, songPos, lsize, sdready, ctl, suspended, runLocals, played>>

(***************************************************************************)
(* rx_task and music_control.                                              *)
(***************************************************************************)
(* Nobody is quick enough to press a key before both tasks have booted. *)
Key ==
  /\ \A t \in Tasks : pc[t] # "boot"
  /\ input' \in {"p", "s"}
  /\ UNCHANGED <<buffer, songPos, mp3Size, lsize, sdready, play_music, cpc, suspended,
                 pc, runLocals, played>>

Poll ==
  /\ cpc = "poll"
  /\ \/ input = "p" /\ ~play_music /\ cpc' = "resumeRun"
     \/ input = "s" /\ play_music /\ cpc' = "suspendRun"
  /\ play_music' = ~play_music
  /\ UNCHANGED <<buffer, songPos, mp3Size, lsize, sdready, input, suspended, pc, runLocals,
                 played>>

vTaskResume_none(t) == UNCHANGED suspended

vTaskResume(t) == suspended' = suspended \ {t}

vTaskSuspend(t) == suspended' = suspended \cup {t}

Switch ==
  /\ \/ cpc = "resumeRun" /\ vTaskResume("run") /\ cpc' = "resumeSd"
     \/ cpc = "resumeSd" /\ vTaskResume("mp3sdcard") /\ cpc' = "poll"
     \/ cpc = "suspendRun" /\ vTaskSuspend("run") /\ cpc' = "suspendSd"
     \/ cpc = "suspendSd" /\ vTaskSuspend("mp3sdcard") /\ cpc' = "poll"
  /\ UNCHANGED <<buffer, songPos, mp3Size, lsize, sdready, play_music, input, pc, runLocals,
                 played>>
-----------------------------------------------------------------------------
RunStep ==
  \/ Boot("run") \/ Outer \/ Inner \/ SendFirst \/ SendLast
  \/ LoadPos \/ StorePos \/ TestPos

SdStep ==
  \/ Boot("mp3sdcard") \/ OpenSong \/ RewindPos
  \/ ReadBlock("read1") \/ ReadFails("read1") \/ FirstReadDone
  \/ Refill \/ ReadBlock("read2") \/ ReadFails("read2") \/ RefillDone
  \/ RestartPos \/ SetReady
  \/ SongFinished \/ ForgetSize

ControlStep == Poll \/ Switch

Next == RunStep \/ SdStep \/ ControlStep \/ Key

SafetySpec == Init /\ [][Next]_vars

(* The scheduler takes turns among tasks of one priority; the card can be     *)
(* read and the decoder asks for data, in the end.                            *)
Spec == SafetySpec /\ WF_vars(RunStep) /\ WF_vars(SdStep) /\ WF_vars(ControlStep)
-----------------------------------------------------------------------------
RunPlaces == {"boot", "outer", "inner", "first", "last", "load", "store", "test", "returned"}
SdPlaces == {"boot", "open", "rewind", "read1", "wait", "read2", "restart", "ready", "finished"}

TypeOK ==
  /\ songptr \in [0 .. BLOCKS - 1 -> 0 .. FILE]
  /\ songPos \in 0 .. BLOCKS
  /\ mp3Size \in 0 .. WHOLE + Margin + BLOCKS - 1
  /\ lsize \in 0 .. WHOLE /\ song_err \in BOOLEAN
  /\ sdready \in BOOLEAN /\ play_music \in BOOLEAN /\ input \in Keys
  /\ suspended \subseteq Tasks
  /\ pc \in [Tasks -> RunPlaces \cup SdPlaces]
  /\ pc["run"] \in RunPlaces /\ pc["mp3sdcard"] \in SdPlaces
  /\ cpc \in {"poll", "resumeRun", "resumeSd", "suspendRun", "suspendSd"}
  /\ head \in 0 .. FILE /\ pos \in 0 .. BLOCKS - 1
  /\ readPos \in 0 .. FILE /\ slot \in 0 .. BLOCKS
  /\ played \in Seq((0 .. FILE) \X (0 .. FILE))

(* While mp3sdcard refills the buffer and until it has reset songPos, run is  *)
(* between buffers, whatever suspensions fall in between: the flag sdready    *)
(* alone keeps the two apart.                                                 *)
RefillAlone ==
  pc["mp3sdcard"] \in {"read2", "restart", "ready"} =>
    ~sdready /\ pc["run"] \in {"outer", "inner", "returned"}

(* After a song's first buffer, every block of the file goes to the decoder   *)
(* whole, once and in order, up to a read error, and up to the last block     *)
(* before the error.  (The first buffer is not: run may start before the      *)
(* first f_read, and that f_read may be overwritten by a refill.  After an    *)
(* error the buffer is sent and counted again and again.)                     *)
ReadWell == IF song_err THEN readPos ELSE FILE

SongInOrder ==
  \A i \in 1 .. Len(played) :
    pc["mp3sdcard"] \in {"wait", "read2", "restart", "ready"} /\ mp3Size > 0
      /\ i <= ReadWell - BLOCKS
      => played[i] = <<BLOCKS + i, BLOCKS + i>>

(* The margin of 32 blocks is enough: when mp3sdcard has counted the song to  *)
(* its end without an error of the card, run has sent every block of it that  *)
(* came by a refill.                                                          *)
SongComplete ==
  ~song_err /\ ~MorePlanned => Len(played) >= FILE - BLOCKS

(* If from some time on nobody stops the music, song after song is counted to *)
(* its end, whatever the card does to the reads, until run meets such an end  *)
(* and returns.                                                               *)
SongEnds ==
  []<>(~play_music \/ ~MorePlanned \/ pc["run"] = "returned")
=============================================================================
