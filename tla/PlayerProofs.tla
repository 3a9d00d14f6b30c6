---------------------------- MODULE PlayerProofs ----------------------------
(***************************************************************************)
(* Theorems about the two players, for a buffer and a song of any length.  *)
(*                                                                         *)
(* MP3 player: the places where the two tasks stand say which of them has  *)
(* the buffer and how far the song has come in the file, in the buffer and *)
(* on the bus.                                                             *)
(*                                                                         *)
(* VS1053B player: the chunk where the player will be when its buffer and  *)
(* the queued one are through is the one where the reader stands.          *)
(***************************************************************************)
EXTENDS Mp3Player, Vs1053Player, TLAPS

USE Mp3PlayerAssumption

-----------------------------------------------------------------------------
(***************************************************************************)
(* The MP3 player.                                                         *)
(***************************************************************************)
(* What the tasks' places say of the shared variables.                       *)
Sending == {"first", "last", "load"}
Playing == Sending \cup {"store", "test"}
Refilling == {"read2", "restart", "ready"}

(* run holds a position inside the buffer from its test of songPos to the     *)
(* increment, since mp3sdcard only ever sets songPos back to 0.               *)
PosInBuffer == pc["run"] \in Sending => songPos < BLOCKS

(* A refill is only begun, and counted, short of the song's end.              *)
CountShort ==
  /\ pc["mp3sdcard"] = "read2" => mp3Size < lsize + Margin
  /\ pc["mp3sdcard"] \notin {"boot", "open"} => lsize = WHOLE \/ song_err
  /\ pc["mp3sdcard"] = "boot" => mp3Size = 0

(* sdready falls when run is done with the buffer, and rises when mp3sdcard   *)
(* has refilled it.                                                           *)
FlagHandover ==
  /\ ~sdready => pc["run"] \notin Playing \cup {"boot"}
  /\ pc["mp3sdcard"] \in Refilling => ~sdready

Upto(n) == IF n < FILE THEN n ELSE FILE

(* After the first refill has begun. *)
InSong ==
  \/ pc["mp3sdcard"] \in Refilling
  \/ pc["mp3sdcard"] = "wait" /\ mp3Size > 0

(* How far mp3sdcard has come in the file, or got before the error.           *)
ReadUpto(n) == IF song_err THEN readPos <= Upto(n) ELSE readPos = Upto(n)

ReadProgress ==
  /\ pc["mp3sdcard"] \in {"boot", "open", "rewind", "read1"} => mp3Size = 0
  /\ pc["mp3sdcard"] = "rewind" => readPos = 0
  /\ pc["mp3sdcard"] = "read1" => readPos = slot
  /\ pc["mp3sdcard"] \in {"wait", "restart", "ready"} => ReadUpto(BLOCKS + mp3Size)
  /\ pc["mp3sdcard"] = "read2" => ReadUpto(BLOCKS + mp3Size + slot)
  /\ pc["mp3sdcard"] \in {"restart", "ready"} => mp3Size > 0

(* What the buffer holds of the file.                                         *)
BufferContent ==
  /\ pc["mp3sdcard"] = "read2" =>
       \A k \in 0 .. BLOCKS - 1 : k < slot => songptr[k] = BLOCKS + mp3Size + k + 1
  /\ InSong /\ pc["mp3sdcard"] # "read2" =>
       \A k \in 0 .. BLOCKS - 1 : mp3Size + k + 1 <= ReadWell => songptr[k] = mp3Size + k + 1

(* How many blocks run has sent.                                              *)
SendProgress ==
  /\ pc["mp3sdcard"] = "read2" => Len(played) = mp3Size
  /\ pc["mp3sdcard"] \in {"restart", "ready"} => Len(played) = mp3Size - BLOCKS
  /\ pc["mp3sdcard"] = "ready" => songPos = 0
  /\ InSong /\ pc["mp3sdcard"] = "wait" =>
       /\ ~sdready => Len(played) = mp3Size
       /\ sdready /\ pc["run"] \notin {"load", "store"} => Len(played) = mp3Size - BLOCKS + songPos
       /\ pc["run"] \in {"load", "store"} => Len(played) = mp3Size - BLOCKS + songPos + 1
       /\ pc["run"] = "store" => pos = songPos
       /\ pc["run"] = "last" => head = songptr[songPos]

(* What it has sent.                                                          *)
PlayedInOrder ==
  InSong => \A m \in 1 .. Len(played) :
              m <= ReadWell - BLOCKS => played[m] = <<BLOCKS + m, BLOCKS + m>>

IInv == TypeOK /\ PosInBuffer /\ CountShort /\ FlagHandover

SongInv == ReadProgress /\ BufferContent /\ SendProgress /\ PlayedInOrder /\ SongComplete

(* Nothing is played before the song begins.                                 *)
LEMMA InitInv == Init => IInv
<1> SUFFICES ASSUME Init PROVE IInv
  OBVIOUS
<1>1. pc \in [Tasks -> RunPlaces \cup SdPlaces] /\ pc["run"] = "boot" /\ pc["mp3sdcard"] = "boot"
  BY DEF Init, Tasks, RunPlaces, SdPlaces
<1>2. songptr \in [0 .. BLOCKS - 1 -> 0 .. FILE]
  BY DEF Init, Silence
<1>3. mp3Size \in 0 .. WHOLE + Margin + BLOCKS - 1 /\ songPos \in 0 .. BLOCKS
  BY DEF Init, Margin
<1>4. head \in 0 .. FILE /\ pos \in 0 .. BLOCKS - 1 /\ readPos \in 0 .. FILE /\ slot \in 0 .. BLOCKS
  BY DEF Init, Silence
<1>9. lsize \in 0 .. WHOLE
  BY DEF Init
<1>5. /\ song_err \in BOOLEAN /\ sdready \in BOOLEAN /\ play_music \in BOOLEAN
      /\ input \in Keys /\ suspended \subseteq Tasks
      /\ cpc \in {"poll", "resumeRun", "resumeSd", "suspendRun", "suspendSd"}
  BY DEF Init, Keys
<1>6. played \in Seq((0 .. FILE) \X (0 .. FILE))
  BY DEF Init
<1>7. pc["run"] \in RunPlaces /\ pc["mp3sdcard"] \in SdPlaces
  BY <1>1 DEF RunPlaces, SdPlaces
<1>8. TypeOK
  BY <1>1, <1>2, <1>3, <1>4, <1>5, <1>6, <1>7, <1>9 DEF TypeOK
<1> QED
  BY <1>1, <1>8 DEF Init, IInv, PosInBuffer, CountShort, FlagHandover, Sending, Refilling

(* The actions of one module share what they leave alone: typing first.       *)
LEMMA TypeStep == IInv /\ [Next]_vars => TypeOK'
<1> SUFFICES ASSUME IInv, [Next]_vars PROVE TypeOK'
  OBVIOUS
<1> USE DEF IInv, TypeOK, PosInBuffer, CountShort, Sending, Runs, Tasks, Keys, Silence,
            Margin, buffer, ctl, runLocals, RunPlaces, SdPlaces
<1>1. CASE RunStep
  <2>1. CASE Boot("run") BY <2>1 DEF Boot
  <2>2. CASE Outer BY <2>2 DEF Outer
  <2>3. CASE Inner BY <2>3 DEF Inner
  <2>4. CASE SendFirst BY <2>4 DEF SendFirst
  <2>5. CASE SendLast BY <2>5 DEF SendLast
  <2>6. CASE LoadPos BY <2>6 DEF LoadPos
  <2>7. CASE StorePos BY <2>7 DEF StorePos
  <2>8. CASE TestPos BY <2>8 DEF TestPos
  <2> QED BY <1>1, <2>1, <2>2, <2>3, <2>4, <2>5, <2>6, <2>7, <2>8 DEF RunStep
<1>2. CASE SdStep
  <2>1. CASE Boot("mp3sdcard") BY <2>1 DEF Boot
  <2>2. CASE OpenSong
    <3>1. lsize' \in 0 .. WHOLE
      BY <2>2 DEF OpenSong
    <3>2. song_err' \in BOOLEAN
      BY <2>2 DEF OpenSong
    <3>3. mp3Size' \in 0 .. WHOLE + Margin + BLOCKS - 1 /\ readPos' \in 0 .. FILE
      BY <2>2 DEF OpenSong
    <3> QED BY <2>2, <3>1, <3>2, <3>3 DEF OpenSong
  <2>3. CASE RewindPos BY <2>3 DEF RewindPos
  <2>4. CASE ReadBlock("read1") BY <2>4 DEF ReadBlock, ReadDone
  <2>5. CASE FirstReadDone BY <2>5 DEF FirstReadDone
  <2>6. CASE Refill BY <2>6 DEF Refill
  <2>7. CASE ReadBlock("read2") BY <2>7 DEF ReadBlock, ReadDone
  <2>8. CASE RefillDone BY <2>8 DEF RefillDone, CountBuffer
  <2>9. CASE RestartPos BY <2>9 DEF RestartPos
  <2>10. CASE SetReady BY <2>10 DEF SetReady
  <2>11. CASE SongFinished BY <2>11 DEF SongFinished
  <2>12. CASE ForgetSize BY <2>12 DEF ForgetSize
  <2>13. CASE ReadFails("read1") \/ ReadFails("read2")
    <3>1. song_err' \in BOOLEAN
      BY <2>13 DEF ReadFails
    <3>2. CASE ReadFails("read1") BY <3>1, <3>2 DEF ReadFails
    <3>3. CASE ReadFails("read2") BY <3>1, <3>3 DEF ReadFails
    <3> QED BY <2>13, <3>2, <3>3
  <2> QED BY <1>2, <2>1, <2>2, <2>3, <2>4, <2>5, <2>6, <2>7, <2>8, <2>9, <2>10, <2>11, <2>12,
             <2>13 DEF SdStep
<1>3. CASE Poll BY <1>3 DEF Poll
<1>4. CASE Switch
  <2>1. suspended' \subseteq Tasks
    BY <1>4 DEF Switch, vTaskResume, vTaskSuspend
  <2>2. cpc' \in {"poll", "resumeRun", "resumeSd", "suspendRun", "suspendSd"}
    BY <1>4 DEF Switch
  <2> QED BY <1>4, <2>1, <2>2 DEF Switch
<1>5. CASE Key BY <1>5 DEF Key
<1>6. CASE UNCHANGED vars BY <1>6 DEF vars
<1> QED BY <1>1, <1>2, <1>3, <1>4, <1>5, <1>6 DEF Next, ControlStep

(* No step lets run keep a position outside the buffer: nobody else moves     *)
(* songPos forward.                                                           *)
LEMMA PosStep == IInv /\ [Next]_vars => PosInBuffer'
<1> SUFFICES ASSUME IInv, [Next]_vars PROVE PosInBuffer'
  OBVIOUS
<1> USE DEF IInv, TypeOK, PosInBuffer, Sending, Runs, Tasks, RunPlaces, SdPlaces
<1>1. CASE RunStep
  BY <1>1 DEF RunStep, Boot, Outer, Inner, MayTake, SendFirst, SendLast, LoadPos, StorePos, TestPos
<1>2. CASE SdStep
  <2>1. CASE RewindPos \/ RestartPos \/ SongFinished
    BY <2>1 DEF RewindPos, RestartPos, SongFinished
  <2>2. CASE ~(RewindPos \/ RestartPos \/ SongFinished)
    BY <1>2, <2>2 DEF SdStep, Boot, OpenSong, ReadBlock, ReadFails, FirstReadDone, Refill,
                      RefillDone, SetReady, ForgetSize
  <2> QED BY <2>1, <2>2
<1>3. CASE ControlStep \/ Key \/ UNCHANGED vars
  BY <1>3 DEF ControlStep, Poll, Switch, Key, vars
<1> QED BY <1>1, <1>2, <1>3 DEF Next

(* Only mp3sdcard writes the count and the song's length.                     *)
LEMMA CountStep == IInv /\ [Next]_vars => CountShort'
<1> SUFFICES ASSUME IInv, [Next]_vars PROVE CountShort'
  OBVIOUS
<1> USE DEF IInv, TypeOK, CountShort, Runs, Tasks, RunPlaces, SdPlaces, Margin, buffer
<1>1. CASE RunStep
  BY <1>1 DEF RunStep, Boot, Outer, Inner, SendFirst, SendLast, LoadPos, StorePos, TestPos
<1>2. CASE SdStep
  <2>1. CASE Boot("mp3sdcard") \/ RewindPos \/ ReadBlock("read1") \/ ReadBlock("read2")
               \/ ReadFails("read1") \/ ReadFails("read2")
               \/ FirstReadDone \/ RestartPos \/ SetReady \/ SongFinished
    BY <2>1 DEF Boot, RewindPos, ReadBlock, ReadFails, FirstReadDone, RestartPos, SetReady, SongFinished
  <2>2. CASE OpenSong BY <2>2 DEF OpenSong
  <2>3. CASE Refill BY <2>3 DEF Refill, MorePlanned
  <2>4. CASE RefillDone BY <2>4 DEF RefillDone, CountBuffer
  <2>5. CASE ForgetSize BY <2>5 DEF ForgetSize
  <2> QED BY <1>2, <2>1, <2>2, <2>3, <2>4, <2>5 DEF SdStep
<1>3. CASE ControlStep \/ Key \/ UNCHANGED vars
  BY <1>3 DEF ControlStep, Poll, Switch, Key, vars
<1> QED BY <1>1, <1>2, <1>3 DEF Next

(* run lowers the flag on its way out of the buffer, and mp3sdcard raises it  *)
(* on its own.                                                                *)
LEMMA FlagStep == IInv /\ [Next]_vars => FlagHandover'
<1> SUFFICES ASSUME IInv, [Next]_vars PROVE FlagHandover'
  OBVIOUS
<1> USE DEF IInv, TypeOK, FlagHandover, Sending, Playing, Refilling, Runs, Tasks, RunPlaces,
            SdPlaces
<1>1. CASE RunStep
  BY <1>1 DEF RunStep, Boot, Outer, Inner, MayTake, SendFirst, SendLast, LoadPos, StorePos, TestPos
<1>2. CASE SdStep
  BY <1>2 DEF SdStep, Boot, OpenSong, RewindPos, ReadBlock, ReadFails, FirstReadDone, Refill,
              RefillDone, RestartPos, SetReady, SongFinished, ForgetSize
<1>3. CASE ControlStep \/ Key \/ UNCHANGED vars
  <2>1. UNCHANGED <<sdready, pc>>
    BY <1>3 DEF ControlStep, Poll, Switch, Key, vars
  <2> QED BY <2>1
<1> QED BY <1>1, <1>2, <1>3 DEF Next

(* The invariant holds throughout.                                           *)
THEOREM Invariant == SafetySpec => []IInv
<1>1. IInv /\ [Next]_vars => IInv'
  BY TypeStep, PosStep, CountStep, FlagStep DEF IInv
<1> QED BY InitInv, <1>1, PTL DEF SafetySpec

(* The counters of the player stay in their ranges: songPos in the buffer,    *)
(* mp3Size less than one buffer past the song and its margin.                 *)
THEOREM PlayerTypeCorrect == SafetySpec => []TypeOK
<1>1. IInv => TypeOK
  BY DEF IInv
<1> QED BY Invariant, <1>1, PTL

(* No block is on its way to the decoder while mp3sdcard refills the buffer   *)
(* or resets songPos, wherever the two tasks are suspended and resumed.       *)
THEOREM RefillIsAlone == SafetySpec => []RefillAlone
<1>1. IInv => RefillAlone
  BY DEF IInv, TypeOK, FlagHandover, RefillAlone, Refilling, Playing, Sending, RunPlaces
<1> QED BY Invariant, <1>1, PTL
-----------------------------------------------------------------------------
(* The song: from here on the data count.                                    *)
LEMMA InitSong == Init => SongInv
BY DEF Init, Tasks, Margin, MorePlanned, SongInv, ReadProgress, BufferContent, SendProgress, PlayedInOrder,
       SongComplete, InSong, Refilling

(* A refill begins where the last one ended in the file, or where the first  *)
(* f_read of the song ended.                                                 *)
LEMMA ReadStep == IInv /\ ReadProgress /\ [Next]_vars => ReadProgress'
<1> SUFFICES ASSUME IInv, ReadProgress, [Next]_vars PROVE ReadProgress'
  OBVIOUS
<1> USE DEF IInv, TypeOK, CountShort, ReadProgress, ReadUpto, Upto, Runs, Tasks, RunPlaces, SdPlaces,
            Margin, buffer, ctl, runLocals
<1>1. CASE RunStep
  <2>1. /\ pc'["mp3sdcard"] = pc["mp3sdcard"]
        /\ UNCHANGED <<readPos, slot, song_err, mp3Size>>
    BY <1>1 DEF RunStep, Boot, Outer, Inner, SendFirst, SendLast, LoadPos, StorePos, TestPos
  <2> QED BY <2>1
<1>2. CASE SdStep
  <2>1. CASE Boot("mp3sdcard") BY <2>1 DEF Boot
  <2>2. CASE OpenSong BY <2>2 DEF OpenSong
  <2>3. CASE RewindPos BY <2>3 DEF RewindPos
  <2>4. CASE ReadBlock("read1") BY <2>4 DEF ReadBlock, ReadDone
  <2>5. CASE FirstReadDone BY <2>5 DEF FirstReadDone, ReadDone
  <2>6. CASE Refill BY <2>6 DEF Refill
  <2>7. CASE ReadBlock("read2") BY <2>7 DEF ReadBlock, ReadDone
  <2>8. CASE RefillDone BY <2>8 DEF RefillDone, CountBuffer, ReadDone
  <2>9. CASE RestartPos BY <2>9 DEF RestartPos
  <2>10. CASE SetReady BY <2>10 DEF SetReady
  <2>11. CASE SongFinished BY <2>11 DEF SongFinished
  <2>12. CASE ForgetSize BY <2>12 DEF ForgetSize
  <2>13. CASE ReadFails("read1") \/ ReadFails("read2") BY <2>13 DEF ReadFails, ReadDone
  <2> QED BY <1>2, <2>1, <2>2, <2>3, <2>4, <2>5, <2>6, <2>7, <2>8, <2>9, <2>10, <2>11, <2>12,
             <2>13 DEF SdStep
<1>3. CASE ControlStep \/ Key \/ UNCHANGED vars
  <2>1. UNCHANGED <<buffer, mp3Size, pc>>
    BY <1>3 DEF ControlStep, Poll, Switch, Key, vars
  <2> QED BY <2>1
<1> QED BY <1>1, <1>2, <1>3 DEF Next

(* The refill puts the file's next blocks into the buffer, and counting it   *)
(* makes them the current ones.                                              *)
LEMMA BufferStep == IInv /\ ReadProgress /\ BufferContent /\ [Next]_vars => BufferContent'
<1> SUFFICES ASSUME IInv, ReadProgress, BufferContent, [Next]_vars PROVE BufferContent'
  OBVIOUS
<1> USE DEF IInv, TypeOK, ReadProgress, ReadUpto, ReadWell, BufferContent, InSong, Refilling,
            Upto, Runs, Tasks,
            RunPlaces, SdPlaces, Margin, buffer, ctl, runLocals
<1>1. CASE RunStep
  <2>1. /\ pc'["mp3sdcard"] = pc["mp3sdcard"]
        /\ UNCHANGED <<songptr, slot, readPos, song_err, mp3Size>>
    BY <1>1 DEF RunStep, Boot, Outer, Inner, SendFirst, SendLast, LoadPos, StorePos, TestPos
  <2> QED BY <2>1
<1>2. CASE SdStep
  <2>1. CASE Boot("mp3sdcard") BY <2>1 DEF Boot
  <2>2. CASE OpenSong BY <2>2 DEF OpenSong
  <2>3. CASE RewindPos BY <2>3 DEF RewindPos
  <2>4. CASE ReadBlock("read1") BY <2>4 DEF ReadBlock
  <2>5. CASE FirstReadDone BY <2>5 DEF FirstReadDone
  <2>6. CASE Refill BY <2>6 DEF Refill
  <2>7. CASE ReadBlock("read2")
    <3>1. /\ pc["mp3sdcard"] = "read2" /\ pc'["mp3sdcard"] = "read2"
          /\ slot \in 0 .. BLOCKS - 1 /\ slot' = slot + 1 /\ mp3Size' = mp3Size
          /\ songptr' = [songptr EXCEPT ![slot] = readPos + 1]
      BY <2>7 DEF ReadBlock, ReadDone
    <3>2. readPos = BLOCKS + mp3Size + slot
      BY <2>7, <3>1 DEF ReadBlock, ReadDone
    <3>3. ASSUME NEW k \in 0 .. BLOCKS - 1, k < slot'
          PROVE  songptr'[k] = BLOCKS + mp3Size' + k + 1
      <4>1. CASE k = slot
        BY <3>1, <3>2, <4>1
      <4>2. CASE k < slot
        BY <3>1, <4>2
      <4> QED BY <3>1, <3>3, <4>1, <4>2
    <3> QED BY <3>1, <3>3
  <2>8. CASE RefillDone BY <2>8 DEF RefillDone, CountBuffer, ReadDone
  <2>9. CASE RestartPos BY <2>9 DEF RestartPos
  <2>10. CASE SetReady BY <2>10 DEF SetReady
  <2>11. CASE SongFinished BY <2>11 DEF SongFinished
  <2>12. CASE ForgetSize BY <2>12 DEF ForgetSize
  <2>13. CASE ReadFails("read1") \/ ReadFails("read2") BY <2>13 DEF ReadFails, ReadDone
  <2> QED BY <1>2, <2>1, <2>2, <2>3, <2>4, <2>5, <2>6, <2>7, <2>8, <2>9, <2>10, <2>11, <2>12,
             <2>13 DEF SdStep
<1>3. CASE ControlStep \/ Key \/ UNCHANGED vars
  <2>1. UNCHANGED <<buffer, mp3Size, pc>>
    BY <1>3 DEF ControlStep, Poll, Switch, Key, vars
  <2> QED BY <2>1
<1> QED BY <1>1, <1>2, <1>3 DEF Next

(* run and mp3sdcard agree on how much of the song has been sent.            *)
LEMMA SendStep == IInv /\ ReadProgress /\ SendProgress /\ [Next]_vars => SendProgress'
<1> SUFFICES ASSUME IInv, ReadProgress, SendProgress, [Next]_vars PROVE SendProgress'
  OBVIOUS
<1> USE DEF IInv, TypeOK, ReadProgress, SendProgress, FlagHandover, InSong, Sending, Playing,
            Refilling, Runs, Tasks, RunPlaces, SdPlaces, Margin, buffer, ctl, runLocals
<1>1. CASE RunStep
  <2>1. CASE Boot("run") BY <2>1 DEF Boot
  <2>2. CASE Outer BY <2>2 DEF Outer
  <2>3. CASE Inner BY <2>3 DEF Inner, MayTake
  <2>4. CASE SendFirst BY <2>4 DEF SendFirst
  <2>5. CASE SendLast
    <3>1. Len(played') = Len(played) + 1
      BY <2>5 DEF SendLast, PosInBuffer
    <3> QED BY <2>5, <3>1 DEF SendLast
  <2>6. CASE LoadPos BY <2>6 DEF LoadPos
  <2>7. CASE StorePos BY <2>7 DEF StorePos
  <2>8. CASE TestPos BY <2>8 DEF TestPos, BufferSent
  <2> QED BY <1>1, <2>1, <2>2, <2>3, <2>4, <2>5, <2>6, <2>7, <2>8 DEF RunStep
<1>2. CASE SdStep
  <2>1. CASE Boot("mp3sdcard") BY <2>1 DEF Boot
  <2>2. CASE OpenSong BY <2>2 DEF OpenSong
  <2>3. CASE RewindPos BY <2>3 DEF RewindPos
  <2>4. CASE ReadBlock("read1") BY <2>4 DEF ReadBlock
  <2>5. CASE FirstReadDone BY <2>5 DEF FirstReadDone
  <2>6. CASE Refill BY <2>6 DEF Refill
  <2>7. CASE ReadBlock("read2") BY <2>7 DEF ReadBlock
  <2>8. CASE RefillDone BY <2>8 DEF RefillDone, CountBuffer
  <2>9. CASE RestartPos BY <2>9 DEF RestartPos
  <2>10. CASE SetReady BY <2>10 DEF SetReady
  <2>11. CASE SongFinished BY <2>11 DEF SongFinished
  <2>12. CASE ForgetSize BY <2>12 DEF ForgetSize
  <2>13. CASE ReadFails("read1") \/ ReadFails("read2") BY <2>13 DEF ReadFails, ReadDone
  <2> QED BY <1>2, <2>1, <2>2, <2>3, <2>4, <2>5, <2>6, <2>7, <2>8, <2>9, <2>10, <2>11, <2>12,
             <2>13 DEF SdStep
<1>3. CASE ControlStep \/ Key \/ UNCHANGED vars
  <2>1. UNCHANGED <<buffer, songPos, mp3Size, sdready, pc, runLocals, played>>
    BY <1>3 DEF ControlStep, Poll, Switch, Key, vars
  <2> QED BY <2>1
<1> QED BY <1>1, <1>2, <1>3 DEF Next

(* The block that run adds to those it has sent is the file's next one.      *)
LEMMA OrderStep == IInv /\ SongInv /\ [Next]_vars => PlayedInOrder'
<1> SUFFICES ASSUME IInv, SongInv, [Next]_vars PROVE PlayedInOrder'
  OBVIOUS
<1> USE DEF IInv, TypeOK, InSong, Refilling, ReadWell, Runs, Tasks, RunPlaces, SdPlaces, buffer
<1>9. ASSUME played' = played, InSong' => InSong, ReadWell' <= ReadWell
      PROVE  PlayedInOrder'
  <2>1. ReadWell \in Int /\ ReadWell' \in Int /\ Len(played) \in Nat
    BY TypeStep
  <2>2. ASSUME NEW m \in 1 .. Len(played), m <= ReadWell' - BLOCKS PROVE m <= ReadWell - BLOCKS
    <3>1. m \in Int /\ BLOCKS \in Int
      BY <2>1
    <3>2. m <= ReadWell' - BLOCKS /\ ReadWell' <= ReadWell
      BY <1>9, <2>2
    <3> QED BY <2>1, <3>1, <3>2, \A a, b, c, d \in Int : d <= a - b /\ a <= c => d <= c - b
  <2> QED BY <1>9, <2>2 DEF SongInv, PlayedInOrder
<1>1. CASE SendLast
  <2> SUFFICES ASSUME InSong, NEW m \in 1 .. Len(played'), m <= ReadWell - BLOCKS
               PROVE  played'[m] = <<BLOCKS + m, BLOCKS + m>>
    BY <1>1 DEF SendLast, PlayedInOrder
  <2>1. Len(played') = Len(played) + 1
    BY <1>1 DEF SendLast
  <2>2. CASE m \in 1 .. Len(played)
    <3>1. played'[m] = played[m]
      BY <1>1, <2>2 DEF SendLast
    <3> QED BY <2>2, <3>1 DEF SongInv, PlayedInOrder
  <2>3. CASE m = Len(played) + 1
    <3>1. played'[m] = <<head, songptr[songPos]>>
      BY <1>1, <2>3 DEF SendLast
    <3>2. pc["run"] = "last" /\ sdready /\ songPos \in 0 .. BLOCKS - 1
      BY <1>1 DEF SendLast, FlagHandover, PosInBuffer, Playing, Sending
    <3>3. pc["mp3sdcard"] = "wait" /\ mp3Size > 0
      BY <3>2 DEF FlagHandover
    <3>4. head = songptr[songPos] /\ m = mp3Size - BLOCKS + songPos + 1
      BY <2>3, <3>2, <3>3 DEF SongInv, SendProgress
    <3>5. songptr[songPos] = mp3Size + songPos + 1
      BY <3>2, <3>3, <3>4 DEF SongInv, BufferContent
    <3> QED BY <3>1, <3>4, <3>5
  <2>4. Len(played) \in Nat
    OBVIOUS
  <2> HIDE DEF IInv, TypeOK, InSong, Runs
  <2>5. m \in 1 .. Len(played) \/ m = Len(played) + 1
    BY <2>1, <2>4
  <2> QED BY <2>2, <2>3, <2>5
<1>2. CASE RunStep /\ ~SendLast
  <2>1. UNCHANGED <<played, readPos, song_err, mp3Size>> /\ pc'["mp3sdcard"] = pc["mp3sdcard"]
    BY <1>2 DEF RunStep, Boot, Outer, Inner, SendFirst, LoadPos, StorePos, TestPos
  <2> QED BY <2>1, <1>9
<1>3. CASE Refill
  <2>1. CASE mp3Size = 0
    BY <1>3, <2>1 DEF Refill, PlayedInOrder
  <2>2. CASE mp3Size # 0
    BY <1>3, <2>2 DEF Refill, SongInv, PlayedInOrder
  <2> QED BY <2>1, <2>2
<1>4. CASE SdStep /\ ~Refill
  <2>1. played' = played /\ (InSong' => InSong)
    BY <1>4 DEF SdStep, Boot, OpenSong, RewindPos, ReadBlock, ReadFails, FirstReadDone, RefillDone,
                RestartPos, SetReady, SongFinished, ForgetSize, SongInv, ReadProgress
  <2>2. CASE OpenSong
    BY <2>2 DEF OpenSong, PlayedInOrder
  <2>3. CASE ReadFails("read1") \/ ReadFails("read2")
    <3>1. ReadWell' <= ReadWell
      BY <2>3 DEF ReadFails
    <3> QED BY <2>1, <3>1, <1>9
  <2>4. CASE ~ OpenSong /\ ~ ReadFails("read1") /\ ~ ReadFails("read2")
    <3>1. song_err' = song_err /\ (song_err => readPos' = readPos)
      BY <1>4, <2>4 DEF SdStep, Boot, RewindPos, ReadBlock, ReadDone, FirstReadDone, RefillDone,
                  RestartPos, SetReady, SongFinished, ForgetSize
    <3> QED BY <2>1, <3>1, <1>9
  <2> QED BY <2>2, <2>3, <2>4
<1>5. CASE ControlStep \/ Key \/ UNCHANGED vars
  <2>1. UNCHANGED <<played, readPos, song_err, mp3Size, pc>>
    BY <1>5 DEF ControlStep, Poll, Switch, Key, vars
  <2> QED BY <2>1, <1>9
<1> QED BY <1>1, <1>2, <1>3, <1>4, <1>5 DEF Next, RunStep

(* The count reaches the song's end only after run has sent what came before *)
(* the last refill, and the margin is longer than that refill.               *)
LEMMA CompleteStep == IInv /\ SongInv /\ [Next]_vars => SongComplete'
<1> SUFFICES ASSUME IInv, SongInv, [Next]_vars PROVE SongComplete'
  OBVIOUS
<1> USE DEF IInv, TypeOK, CountShort, SongComplete, MorePlanned, Runs, Tasks, RunPlaces,
            SdPlaces, Margin, SongInv, buffer
<1>1. CASE SendLast
  <2>1. Len(played') = Len(played) + 1
    BY <1>1 DEF SendLast
  <2> QED BY <1>1, <2>1 DEF SendLast
<1>2. CASE RunStep /\ ~SendLast
  BY <1>2 DEF RunStep, Boot, Outer, Inner, SendFirst, LoadPos, StorePos, TestPos
<1>3. CASE Refill
  BY <1>3 DEF Refill
<1>4. CASE RefillDone
  BY <1>4 DEF RefillDone, CountBuffer, SendProgress
<1>5. CASE SdStep /\ ~Refill /\ ~RefillDone
  <2>1. CASE OpenSong
    BY <2>1 DEF OpenSong
  <2>2. CASE ForgetSize
    BY <2>2 DEF ForgetSize
  <2>3. CASE SdStep /\ ~Refill /\ ~RefillDone /\ ~OpenSong /\ ~ForgetSize
    <3>1. UNCHANGED <<mp3Size, lsize, played>> /\ (song_err => song_err')
      BY <2>3 DEF SdStep, Boot, RewindPos, ReadBlock, ReadFails, FirstReadDone, RestartPos, SetReady,
                  SongFinished
    <3> QED BY <3>1
  <2> QED BY <1>5, <2>1, <2>2, <2>3
<1>6. CASE ControlStep \/ Key \/ UNCHANGED vars
  BY <1>6 DEF ControlStep, Poll, Switch, Key, vars
<1> QED BY <1>1, <1>2, <1>3, <1>4, <1>5, <1>6 DEF Next, RunStep

(* So does what it says of the order of the song.                            *)
THEOREM SongInvariant == SafetySpec => [](IInv /\ SongInv)
<1>1. IInv /\ SongInv /\ [Next]_vars => (IInv /\ SongInv)'
  BY TypeStep, PosStep, CountStep, FlagStep, ReadStep, BufferStep, SendStep, OrderStep,
     CompleteStep DEF IInv, SongInv
<1> QED BY InitInv, InitSong, <1>1, PTL DEF SafetySpec

(* Whatever the buffer's and the song's length, wherever the music is        *)
(* stopped and resumed and wherever f_read fails unnoticed (main_mp3.c:345,  *)
(* 351), the blocks that come by refills before an error are sent whole,     *)
(* once and in the order of the file.                                        *)
THEOREM SongIsInOrder == SafetySpec => []SongInOrder
<1>1. IInv /\ SongInv => SongInOrder
  BY DEF IInv, TypeOK, SongInv, PlayedInOrder, SongInOrder, InSong, Refilling
<1> QED BY SongInvariant, <1>1, PTL

(* The margin of two buffers (main_mp3.c:269) is enough for every length of  *)
(* the song, when the card makes no error.                                   *)
THEOREM SongIsComplete == SafetySpec => []SongComplete
<1>1. IInv /\ SongInv => SongComplete
  BY DEF SongInv
<1> QED BY SongInvariant, <1>1, PTL

-----------------------------------------------------------------------------
(***************************************************************************)
(* The VS1053B player.                                                     *)
(***************************************************************************)
Places == 0 .. CHUNKS - 1
Capped(n) == IF n < SONG THEN n ELSE SONG

(* A buffer that f_read has filled: chunks of the song in a row, and where    *)
(* the song has ended what was there before; and what it ends with.           *)
IsPiece(buf) ==
  /\ buf[0] > 0
  /\ \A c \in Places : buf[0] + c <= SONG => buf[c] = buf[0] + c

IsBuffer(buf) == buf \in Buffers /\ (IsPiece(buf) \/ buf = Garbage)

End(buf) == Capped(buf[0] - 1 + CHUNKS)

Heard(buf, t) == \A c \in Places : buf[c] <= t

(* When chunk t has been handed out last, a buffer goes on from there, or     *)
(* begins the song anew, or after a read error comes once more; and the chunk *)
(* that has been handed out last when it is through.                          *)
Follows(buf, t) ==
  \/ buf[0] = t + 1
  \/ t = SONG /\ buf[0] = 1
  \/ broken /\ Heard(buf, t)

After(buf, t) == IF buf[0] \in {t + 1, 1} THEN End(buf) ELSE t

(* What will have been handed out last when the player is done with its       *)
(* buffer, and with the one in the queue.                                     *)
OnBus == playerPc \in {"first", "last"}
handed == IF playerPc = "last" THEN i + 1 ELSE i
Topped(n) == Capped(playBuf[0] - 1 + n)

afterPlayer ==
  IF ~ OnBus THEN top
  ELSE IF handed = 0 THEN After(playBuf, top)
  ELSE IF playBuf # Garbage /\ top = Topped(handed) THEN End(playBuf) ELSE top

afterQueue ==
  IF Q_songdata = <<>> THEN afterPlayer ELSE After(Q_songdata[1], afterPlayer)

VsTypeOK ==
  /\ readerPc \in {"send", "receive", "open", "read", "queue"}
  /\ byte_read \in 0 .. CHUNKS /\ byte_been_read \in 0 .. SONG
  /\ broken \in BOOLEAN
  /\ playerPc \in {"receive", "first", "last", "deselect"}
  /\ top \in 0 .. SONG /\ afterPlayer \in 0 .. SONG /\ afterQueue \in 0 .. SONG

PlayerInv ==
  OnBus =>
    /\ i \in Places /\ IsBuffer(playBuf)
    /\ handed = 0 => Follows(playBuf, top)
    /\ handed > 0 => \/ IsPiece(playBuf) /\ top = Topped(handed)
                     \/ broken /\ Heard(playBuf, top)

QueueInv ==
  Q_songdata # <<>> => \E buf : /\ Q_songdata = <<buf>>
                                /\ IsBuffer(buf) /\ Follows(buf, afterPlayer)

(* The reader is where the chunks handed out, queued and on the bus end.      *)
ReaderInv ==
  /\ IsBuffer(readBuf)
  /\ readerPc # "queue" \/ broken => Heard(readBuf, afterQueue)
  /\ readerPc = "queue" =>
       IF broken THEN byte_read = 0
       ELSE /\ readBuf[0] = byte_been_read + 1
            /\ byte_been_read + byte_read = End(readBuf)
            /\ Follows(readBuf, afterQueue)
  /\ readerPc = "read" /\ ~ broken =>
       afterQueue = byte_been_read \/ (byte_been_read = 0 /\ afterQueue = SONG)
  /\ readerPc \in {"send", "receive", "open"} => ~ broken /\ afterQueue \in {0, SONG}
  /\ broken => byte_been_read < SONG

VsInv == VsTypeOK /\ PlayerInv /\ QueueInv /\ ReaderInv

(* The places of a buffer.                                                    *)
LEMMA PlacesAre ==
  /\ CHUNKS \in Nat /\ SONG \in Nat /\ CHUNKS >= 1 /\ SONG >= 2
  /\ 0 \in Places /\ CHUNKS - 1 \in Places /\ Places \subseteq Nat
  /\ Garbage \in Buffers /\ \A c \in Places : Garbage[c] = 0
  /\ \A buf \in Buffers : \A c \in Places : buf[c] \in 0 .. SONG
BY Vs1053PlayerAssumption DEF Places, Garbage, Buffers

(* The end of a buffer is its greatest chunk.                                 *)
LEMMA PieceEnds ==
  ASSUME NEW buf \in Buffers, IsPiece(buf)
  PROVE  /\ End(buf) \in 1 .. SONG /\ Heard(buf, End(buf))
         /\ \A t \in 0 .. SONG : Heard(buf, t) => End(buf) <= t
         /\ \A n \in 0 .. CHUNKS : Capped(buf[0] - 1 + n) \in 0 .. End(buf)
<1> DEFINE p == buf[0]
<1>1. p \in 1 .. SONG
  BY PlacesAre DEF IsPiece
<1>2. \A c \in Places : p + c <= SONG => buf[c] = p + c
  BY DEF IsPiece
<1>3. End(buf) = Capped(p - 1 + CHUNKS)
  BY DEF End
<1> HIDE DEF p
<1>4. End(buf) \in 1 .. SONG
  BY <1>1, <1>3, PlacesAre DEF Capped
<1>5. ASSUME NEW c \in Places PROVE buf[c] <= End(buf)
  <2>1. c \in Nat /\ c <= CHUNKS - 1 /\ buf[c] \in 0 .. SONG
    BY PlacesAre DEF Places
  <2>2. CASE p + c <= SONG
    BY <1>1, <1>2, <1>3, <2>1, <2>2, PlacesAre DEF Capped
  <2>3. CASE p + c > SONG
    BY <1>1, <1>3, <2>1, <2>3, PlacesAre DEF Capped
  <2> QED
    BY <1>1, <2>1, <2>2, <2>3, PlacesAre
<1>6. ASSUME NEW t \in 0 .. SONG, Heard(buf, t) PROVE End(buf) <= t
  <2>1. CASE p - 1 + CHUNKS <= SONG
    <3>1. buf[CHUNKS - 1] = p + (CHUNKS - 1)
      BY <1>1, <1>2, <2>1, PlacesAre
    <3>2. buf[CHUNKS - 1] <= t
      BY <1>6, PlacesAre DEF Heard
    <3> QED
      BY <1>1, <1>3, <2>1, <3>1, <3>2, PlacesAre DEF Capped
  <2>2. CASE p - 1 + CHUNKS > SONG
    <3>1. SONG - p \in Places
      BY <1>1, <2>2, PlacesAre DEF Places
    <3>2. buf[SONG - p] = SONG
      BY <1>1, <1>2, <3>1, PlacesAre
    <3>3. buf[SONG - p] <= t
      BY <1>6, <3>1 DEF Heard
    <3> QED
      BY <1>4, <3>2, <3>3, PlacesAre
  <2> QED
    BY <1>1, <2>1, <2>2, PlacesAre
<1>7. \A n \in 0 .. CHUNKS : Capped(p - 1 + n) \in 0 .. End(buf)
  BY <1>1, <1>3, PlacesAre DEF Capped
<1> QED
  BY <1>4, <1>5, <1>6, <1>7 DEF Heard, p

(* What the stack happened to hold is no piece of a song.                    *)
LEMMA GarbageIsNoPiece == ~ IsPiece(Garbage)
BY PlacesAre DEF IsPiece

(* When a buffer is through, all of its chunks are handed out.                *)
LEMMA AfterIsHeard ==
  ASSUME NEW buf, IsBuffer(buf), NEW t \in 0 .. SONG, Follows(buf, t)
  PROVE  After(buf, t) \in 0 .. SONG /\ Heard(buf, After(buf, t))
<1>1. CASE buf = Garbage
  <2>1. buf[0] = 0 /\ Heard(buf, t)
    BY <1>1, PlacesAre DEF Heard
  <2>2. After(buf, t) = t
    BY <2>1 DEF After
  <2> QED
    BY <2>1, <2>2
<1>2. CASE buf # Garbage /\ buf[0] \in {t + 1, 1}
  <2>1. IsPiece(buf) /\ buf \in Buffers
    BY <1>2 DEF IsBuffer
  <2>2. After(buf, t) = End(buf)
    BY <1>2 DEF After
  <2> QED
    BY <2>1, <2>2, PieceEnds, PlacesAre
<1>3. CASE buf[0] \notin {t + 1, 1}
  BY <1>3 DEF After, Follows
<1> QED
  BY <1>1, <1>2, <1>3

(* What a piece has handed out, when all of it has been before, is its end.   *)
LEMMA HeardOut ==
  ASSUME NEW buf, IsBuffer(buf), NEW t \in 0 .. SONG, Heard(buf, t),
         NEW n \in 0 .. CHUNKS, buf # Garbage, t = Capped(buf[0] - 1 + n)
  PROVE  End(buf) = t
<1>1. IsPiece(buf) /\ buf \in Buffers
  BY DEF IsBuffer
<1>2. End(buf) \in 1 .. SONG /\ End(buf) <= t /\ t \in 0 .. End(buf)
  BY <1>1, PieceEnds
<1> QED
  BY <1>2, PlacesAre

(* Nothing is on its way when the scheduler starts.                          *)
LEMMA VsStarts == VsInit => VsInv
<1> SUFFICES ASSUME VsInit PROVE VsInv
  OBVIOUS
<1>1. IsBuffer(readBuf) /\ Heard(readBuf, 0) /\ afterPlayer = 0 /\ afterQueue = 0
  BY PlacesAre DEF VsInit, IsBuffer, Heard, afterPlayer, afterQueue, OnBus
<1>2. VsTypeOK
  <2>1. 0 \in 0 .. SONG /\ 0 \in 0 .. CHUNKS
    BY PlacesAre
  <2> QED
    BY <1>1, <2>1 DEF VsInit, VsTypeOK
<1>3. PlayerInv /\ QueueInv
  BY DEF VsInit, PlayerInv, QueueInv, OnBus
<1>4. ReaderInv
  BY <1>1, PlacesAre DEF VsInit, ReaderInv
<1> QED
  BY <1>2, <1>3, <1>4 DEF VsInv

(* The places after the player and after the queue depend on these only.      *)
LEMMA SamePlayer ==
  ASSUME UNCHANGED <<playerPc, playBuf, i, top>>
  PROVE  /\ afterPlayer' = afterPlayer
         /\ Q_songdata' = Q_songdata => afterQueue' = afterQueue
         /\ PlayerInv /\ (broken => broken') => PlayerInv'
         /\ QueueInv /\ (broken => broken') /\ Q_songdata' = Q_songdata => QueueInv'
<1>1. afterPlayer' = afterPlayer
  BY DEF afterPlayer, OnBus, handed, Topped
<1> QED
  BY <1>1 DEF afterQueue, PlayerInv, QueueInv, OnBus, handed, Topped, Follows

(* f_read makes a piece of the song of the buffer, or leaves it as it was.    *)
LEMMA ReadPiece ==
  ASSUME IsBuffer(readBuf), byte_been_read \in 0 .. SONG, byte_been_read < SONG,
         Read(IF SONG - byte_been_read < CHUNKS THEN SONG - byte_been_read ELSE CHUNKS)
  PROVE  /\ IsBuffer(readBuf') /\ byte_read' \in 0 .. CHUNKS
         /\ readBuf'[0] = byte_been_read + 1
         /\ byte_been_read + byte_read' = End(readBuf')
<1> DEFINE n == byte_been_read
           length == IF SONG - n < CHUNKS THEN SONG - n ELSE CHUNKS
<1>1. /\ n \in Nat /\ n < SONG /\ length \in 1 .. CHUNKS /\ n + length = Capped(n + CHUNKS)
      /\ \A c \in Places : n + 1 + c <= SONG => c < length
      /\ \A c \in Places : c < length => n + c + 1 \in 0 .. SONG
  BY PlacesAre DEF Places, Capped
<1>2. byte_read' = length
      /\ readBuf' = [c \in Places |-> IF c < length THEN n + c + 1 ELSE readBuf[c]]
  BY DEF Read, Places
<1> HIDE DEF n, length
<1>3. \A c \in Places : readBuf'[c] = IF c < length THEN n + c + 1 ELSE readBuf[c]
  BY <1>2
<1>4. readBuf' \in Buffers
  <2>1. Buffers = [Places -> 0 .. SONG]
    BY DEF Buffers, Places
  <2>2. readBuf \in [Places -> 0 .. SONG]
    BY <2>1 DEF IsBuffer
  <2>3. \A c \in Places : (IF c < length THEN n + c + 1 ELSE readBuf[c]) \in 0 .. SONG
    <3> TAKE c \in Places
    <3>1. readBuf[c] \in 0 .. SONG
      BY <2>2
    <3>2. c < length => n + c + 1 \in 0 .. SONG
      BY <1>1
    <3> QED
      BY <3>1, <3>2
  <2> QED
    BY <1>2, <2>1, <2>3
<1>5. readBuf'[0] = n + 1
  BY <1>1, <1>3, PlacesAre
<1>6. IsPiece(readBuf')
  <2> SUFFICES ASSUME NEW c \in Places, n + 1 + c <= SONG PROVE readBuf'[c] = n + 1 + c
    BY <1>1, <1>5 DEF IsPiece
  <2>1. c < length /\ c \in Nat
    BY <1>1, PlacesAre
  <2> QED
    BY <1>1, <1>3, <2>1
<1>7. End(readBuf') = Capped(n + CHUNKS)
  BY <1>1, <1>5, PlacesAre DEF End
<1> QED
  BY <1>1, <1>2, <1>4, <1>5, <1>6, <1>7 DEF IsBuffer, n

(* A read that fails leaves the buffer as it was.                            *)
LEMMA ReadNothing ==
  ASSUME IsBuffer(readBuf), Read(0)
  PROVE  readBuf' = readBuf /\ byte_read' = 0
<1>1. readBuf = [c \in Places |-> readBuf[c]]
  BY DEF IsBuffer, Buffers, Places
<1>2. readBuf' = [c \in Places |-> readBuf[c]]
  BY PlacesAre DEF Read, Places
<1> QED
  BY <1>1, <1>2 DEF Read

(* The reader's steps before and after it reads move nothing.                 *)
LEMMA ReaderSteps == VsInv /\ (ReaderStep \/ OpenFails) => VsInv'
<1> SUFFICES ASSUME VsInv, ReaderStep \/ OpenFails PROVE VsInv'
  OBVIOUS
<1>1. CASE SendName \/ ReceiveName \/ OpenFile \/ OpenFails \/ CloseFile
  <2>1. UNCHANGED <<playerPc, playBuf, i, top, Q_songdata, readBuf, byte_read, broken>>
    BY <1>1 DEF SendName, ReceiveName, OpenFile, OpenFails, CloseFile, player
  <2>2. afterPlayer' = afterPlayer /\ afterQueue' = afterQueue /\ PlayerInv' /\ QueueInv'
    BY <2>1, SamePlayer DEF VsInv
  <2>3. VsTypeOK'
    BY <1>1, <2>1, <2>2, PlacesAre
    DEF VsInv, VsTypeOK, SendName, ReceiveName, OpenFile, FromStart, OpenFails, CloseFile
  <2>4. ReaderInv'
    BY <1>1, <2>1, <2>2, PlacesAre
    DEF VsInv, VsTypeOK, ReaderInv, SendName, ReceiveName, OpenFile, FromStart, OpenFails, CloseFile
  <2> QED
    BY <2>2, <2>3, <2>4 DEF VsInv
<1>2. CASE ReadBuffer
  <2>1. /\ UNCHANGED <<playerPc, playBuf, i, top, Q_songdata, byte_been_read>>
        /\ readerPc = "read" /\ readerPc' = "queue" /\ byte_been_read < SONG
        /\ broken => broken'
    BY <1>2 DEF ReadBuffer, player
  <2>2. afterPlayer' = afterPlayer /\ afterQueue' = afterQueue /\ PlayerInv' /\ QueueInv'
    BY <2>1, SamePlayer DEF VsInv
  <2>3. IsBuffer(readBuf) /\ byte_been_read \in 0 .. SONG /\ Heard(readBuf, afterQueue)
    BY <2>1 DEF VsInv, VsTypeOK, ReaderInv
  <2>4. CASE ~ broken /\ UNCHANGED broken
             /\ Read(IF SONG - byte_been_read < CHUNKS THEN SONG - byte_been_read ELSE CHUNKS)
    <3>1. /\ IsBuffer(readBuf') /\ byte_read' \in 0 .. CHUNKS
          /\ readBuf'[0] = byte_been_read + 1
          /\ byte_been_read + byte_read' = End(readBuf')
      BY <2>1, <2>3, <2>4, ReadPiece
    <3>2. afterQueue = byte_been_read \/ (byte_been_read = 0 /\ afterQueue = SONG)
      BY <2>1, <2>4 DEF VsInv, ReaderInv
    <3>3. readBuf'[0] = afterQueue' + 1 \/ (afterQueue' = SONG /\ readBuf'[0] = 1)
      BY <2>2, <3>1, <3>2
    <3>4. Follows(readBuf, afterQueue)'
      BY <3>3 DEF Follows
    <3>5. VsTypeOK'
      BY <2>1, <2>2, <2>4, <3>1 DEF VsInv, VsTypeOK
    <3>6. End(readBuf)' = End(readBuf') /\ IsBuffer(readBuf)' = IsBuffer(readBuf')
      BY DEF End, IsBuffer, IsPiece
    <3>7. ReaderInv'
      BY <2>1, <2>4, <3>1, <3>4, <3>6 DEF VsInv, VsTypeOK, ReaderInv
    <3> QED
      BY <2>2, <3>5, <3>7 DEF VsInv
  <2>5. CASE broken' = TRUE /\ Read(0)
    <3>1. readBuf' = readBuf /\ byte_read' = 0
      BY <2>3, <2>5, ReadNothing
    <3>2. VsTypeOK'
      BY <2>1, <2>2, <2>5, <3>1, PlacesAre DEF VsInv, VsTypeOK
    <3>3. ReaderInv'
      BY <2>1, <2>2, <2>3, <2>5, <3>1 DEF ReaderInv, Heard
    <3> QED
      BY <2>2, <3>2, <3>3 DEF VsInv
  <2> QED
    BY <1>2, <2>4, <2>5 DEF ReadBuffer
<1>3. CASE QueueBuffer
  <2>1. /\ UNCHANGED <<playerPc, playBuf, i, top, readBuf, byte_read, broken>>
        /\ readerPc = "queue" /\ readerPc' = "read" /\ Q_songdata = <<>>
        /\ Q_songdata' = <<readBuf>> /\ byte_been_read' = byte_been_read + byte_read
    BY <1>3 DEF QueueBuffer, xQueueSend, player
  <2>2. afterPlayer' = afterPlayer /\ PlayerInv' /\ afterPlayer = afterQueue
        /\ afterQueue' = After(readBuf, afterPlayer)
    BY <2>1, SamePlayer DEF VsInv, afterQueue, After, End
  <2>3. IsBuffer(readBuf) /\ Follows(readBuf, afterPlayer) /\ afterPlayer \in 0 .. SONG
    BY <2>1, <2>2 DEF VsInv, VsTypeOK, ReaderInv, Follows
  <2>4. After(readBuf, afterPlayer) \in 0 .. SONG /\ Heard(readBuf, After(readBuf, afterPlayer))
    BY <2>3, AfterIsHeard
  <2>5. QueueInv'
    <3>1. Q_songdata' = <<readBuf'>>
      BY <2>1
    <3>2. IsBuffer(readBuf)' /\ Follows(readBuf, afterPlayer)'
      BY <2>1, <2>2, <2>3 DEF IsBuffer, IsPiece, Follows, Heard
    <3> QED
      BY <3>1, <3>2 DEF QueueInv
  <2>6. CASE broken
    <3>1. byte_been_read' = byte_been_read /\ byte_been_read < SONG
      BY <2>1, <2>6 DEF VsInv, VsTypeOK, ReaderInv
    <3>2. VsTypeOK'
      BY <2>1, <2>2, <2>4, <3>1 DEF VsInv, VsTypeOK
    <3>3. ReaderInv'
      BY <2>1, <2>2, <2>3, <2>4, <2>6, <3>1 DEF ReaderInv, Heard, IsBuffer, IsPiece
    <3> QED
      BY <2>2, <2>5, <3>2, <3>3 DEF VsInv
  <2>7. CASE ~ broken
    <3>1. readBuf[0] = byte_been_read + 1 /\ byte_been_read + byte_read = End(readBuf)
          /\ readBuf[0] \in {afterPlayer + 1, 1}
      BY <2>1, <2>2, <2>3, <2>7 DEF VsInv, ReaderInv, Follows
    <3>2. After(readBuf, afterPlayer) = End(readBuf)
      BY <3>1 DEF After
    <3>3. byte_been_read' = afterQueue' /\ byte_been_read' \in 0 .. SONG
      BY <2>1, <2>2, <2>4, <3>1, <3>2
    <3>4. VsTypeOK'
      BY <2>1, <2>2, <2>4, <3>3 DEF VsInv, VsTypeOK
    <3>5. ReaderInv'
      BY <2>1, <2>2, <2>3, <2>4, <2>7, <3>3 DEF ReaderInv, Heard, IsBuffer, IsPiece
    <3> QED
      BY <2>2, <2>5, <3>4, <3>5 DEF VsInv
  <2> QED
    BY <2>6, <2>7
<1> QED
  BY <1>1, <1>2, <1>3 DEF ReaderStep

(* From the queue to the bus a buffer stays the next one.                     *)
LEMMA ReceiveStep == VsInv /\ ReceiveBuffer => VsInv'
<1> SUFFICES ASSUME VsInv, ReceiveBuffer PROVE VsInv'
  OBVIOUS
<1>1. PICK buf : Q_songdata = <<buf>> /\ IsBuffer(buf) /\ Follows(buf, afterPlayer)
  BY DEF VsInv, QueueInv, ReceiveBuffer
<1>2. /\ playerPc = "receive" /\ playerPc' = "first" /\ i' = 0 /\ top' = top
      /\ playBuf' = buf /\ Q_songdata' = <<>>
      /\ UNCHANGED <<readerPc, readBuf, byte_been_read, byte_read, broken>>
  BY <1>1 DEF ReceiveBuffer, reader
<1>3. afterPlayer = top /\ afterQueue = After(buf, top) /\ Q_songdata # <<>>
  BY <1>1, <1>2 DEF afterPlayer, afterQueue, OnBus
<1>4. afterPlayer' = afterQueue /\ afterQueue' = afterQueue
  BY <1>2, <1>3 DEF afterPlayer, afterQueue, OnBus, handed, After, End
<1>5. VsTypeOK'
  BY <1>2, <1>4 DEF VsInv, VsTypeOK
<1>6. PlayerInv'
  <2>1. IsBuffer(playBuf)' /\ Follows(playBuf, top)'
    BY <1>1, <1>2, <1>3 DEF IsBuffer, IsPiece, Follows, Heard
  <2> QED
    BY <1>2, <2>1, PlacesAre DEF PlayerInv, handed
<1>7. QueueInv'
  BY <1>2 DEF QueueInv
<1>8. ReaderInv'
  BY <1>2, <1>4 DEF VsInv, ReaderInv, IsBuffer, IsPiece, Heard, Follows, End
<1> QED
  BY <1>5, <1>6, <1>7, <1>8 DEF VsInv

(* The chunk that is handed out is the next of the song, or the song's first, *)
(* or one that has been handed out since the song began; where the player     *)
(* gets to remains.                                                           *)
GoesOn ==
  \/ top' = top + 1
  \/ top = SONG /\ top' \in {SONG, 1}
  \/ broken /\ top' \in {top, 1}

(* The first piece of a buffer follows the last one of the buffer before.    *)
LEMMA FirstHandOut ==
  ASSUME VsInv, ChunkFirst, i = 0
  PROVE  GoesOn /\ PlayerInv' /\ afterPlayer' = afterPlayer
<1> DEFINE p == playBuf[0]
<1>1. /\ IsBuffer(playBuf) /\ Follows(playBuf, top) /\ playBuf \in Buffers
      /\ p \in 0 .. SONG /\ top \in 0 .. SONG
  BY PlacesAre DEF VsInv, VsTypeOK, PlayerInv, OnBus, handed, ChunkFirst, IsBuffer
<1>2. /\ playerPc = "first" /\ playerPc' = "last"
      /\ UNCHANGED <<playBuf, i, broken>> /\ i = 0 /\ handed = 0 /\ handed' = 1
      /\ top' = IF p = 1 \/ p > top THEN p ELSE top
  BY DEF ChunkFirst, HandOut, handed, reader
<1>3. afterPlayer = After(playBuf, top)
  BY <1>2 DEF afterPlayer, OnBus
<1>4. Topped(1)' = Capped(p) /\ Topped(1)' = Capped(p - 1 + 1) /\ Capped(p) = p
  BY <1>1, <1>2, PlacesAre DEF Topped, Capped
<1>5. afterPlayer' = IF playBuf # Garbage /\ top' = p THEN End(playBuf) ELSE top'
  <2>1. Topped(handed)' = p
    BY <1>2, <1>4 DEF Topped
  <2> QED
    BY <1>2, <2>1 DEF afterPlayer, OnBus, End
<1>6. IsBuffer(playBuf)' /\ OnBus' /\ i' \in Places /\ handed' = 1
  BY <1>1, <1>2, PlacesAre DEF IsBuffer, IsPiece, OnBus
<1>7. CASE p = top + 1 \/ p = 1
  <2>1. playBuf # Garbage /\ IsPiece(playBuf)
    BY <1>1, <1>7, PlacesAre DEF IsBuffer
  <2>2. top' = p /\ afterPlayer = End(playBuf)
    BY <1>1, <1>2, <1>3, <1>7 DEF After
  <2>3. IsPiece(playBuf)' /\ top' = Topped(handed)'
    BY <1>2, <1>4, <2>1, <2>2 DEF IsPiece, Topped
  <2>4. GoesOn
    BY <1>1, <1>7, <2>2, PlacesAre DEF GoesOn, Follows
  <2> QED
    BY <1>5, <1>6, <2>1, <2>2, <2>3, <2>4 DEF PlayerInv
<1>8. CASE p # top + 1 /\ p # 1
  <2>1. broken /\ Heard(playBuf, top) /\ p <= top
    BY <1>1, <1>8, PlacesAre DEF Follows, Heard
  <2>2. top' = top /\ afterPlayer = top
    BY <1>1, <1>2, <1>3, <1>8, <2>1 DEF After
  <2>3. (broken /\ Heard(playBuf, top))'
    BY <1>2, <2>1, <2>2 DEF Heard
  <2>4. playBuf # Garbage /\ top = p => End(playBuf) = top
    BY <1>1, <1>4, <2>1, HeardOut, PlacesAre
  <2> QED
    BY <1>5, <1>6, <2>1, <2>2, <2>3, <2>4 DEF PlayerInv, GoesOn
<1> QED
  BY <1>7, <1>8

(* Within a buffer each piece follows the one before it.                     *)
LEMMA LaterHandOut ==
  ASSUME VsInv, ChunkFirst, i # 0
  PROVE  GoesOn /\ PlayerInv' /\ afterPlayer' = afterPlayer
<1> DEFINE p == playBuf[0]
<1>1. /\ IsBuffer(playBuf) /\ playBuf \in Buffers /\ i \in Places /\ i \in 1 .. CHUNKS - 1
      /\ p \in 0 .. SONG /\ top \in 0 .. SONG /\ playBuf[i] \in 0 .. SONG
  BY PlacesAre DEF VsInv, VsTypeOK, PlayerInv, OnBus, ChunkFirst, IsBuffer, Places
<1>2. /\ playerPc = "first" /\ playerPc' = "last"
      /\ UNCHANGED <<playBuf, i, broken>> /\ handed = i /\ handed' = i + 1
      /\ top' = IF playBuf[i] > top THEN playBuf[i] ELSE top
  BY <1>1 DEF ChunkFirst, HandOut, handed, reader
<1>3. afterPlayer = IF playBuf # Garbage /\ top = Topped(i) THEN End(playBuf) ELSE top
  BY <1>1, <1>2 DEF afterPlayer, OnBus
<1>4. afterPlayer' = IF playBuf # Garbage /\ top' = Topped(i + 1) THEN End(playBuf) ELSE top'
  <2>1. Topped(handed)' = Topped(i + 1)
    BY <1>2 DEF Topped
  <2>2. handed' # 0
    BY <1>1, <1>2
  <2> QED
    BY <1>2, <2>1, <2>2 DEF afterPlayer, OnBus, End
<1>5. IsBuffer(playBuf)' /\ OnBus' /\ i' \in Places /\ handed' > 0 /\ handed' = i + 1
  BY <1>1, <1>2, PlacesAre DEF IsBuffer, IsPiece, OnBus
<1>6. CASE IsPiece(playBuf) /\ top = Topped(i)
  <2>1. playBuf # Garbage /\ p > 0
    BY <1>6, GarbageIsNoPiece DEF IsPiece
  <2>2. top' = Topped(i + 1) /\ GoesOn
    <3>1. CASE p + i <= SONG
      <4>1. playBuf[i] = p + i
        BY <1>1, <1>6, <3>1 DEF IsPiece
      <4>2. top = p - 1 + i /\ Topped(i + 1) = p + i
        BY <1>1, <1>6, <2>1, <3>1, PlacesAre DEF Topped, Capped
      <4> QED
        BY <1>1, <1>2, <4>1, <4>2 DEF GoesOn
    <3>2. CASE p + i > SONG
      <4>1. top = SONG /\ Topped(i + 1) = SONG
        BY <1>1, <1>6, <2>1, <3>2, PlacesAre DEF Topped, Capped
      <4> QED
        BY <1>1, <1>2, <4>1, PlacesAre DEF GoesOn
    <3> QED
      BY <1>1, <3>1, <3>2, PlacesAre
  <2>3. IsPiece(playBuf)' /\ top' = Topped(handed)'
    BY <1>2, <1>6, <2>2 DEF IsPiece, Topped
  <2> QED
    BY <1>3, <1>4, <1>5, <1>6, <2>1, <2>2, <2>3 DEF PlayerInv
<1>7. CASE broken /\ Heard(playBuf, top)
  <2>1. top' = top
    BY <1>1, <1>2, <1>7 DEF Heard
  <2>2. (broken /\ Heard(playBuf, top))'
    BY <1>2, <1>7, <2>1 DEF Heard
  <2>3. \A n \in 0 .. CHUNKS : playBuf # Garbage /\ top = Topped(n) => End(playBuf) = top
    BY <1>1, <1>7, HeardOut DEF Topped
  <2>4. i \in 0 .. CHUNKS /\ i + 1 \in 0 .. CHUNKS
    BY <1>1, PlacesAre
  <2> QED
    BY <1>3, <1>4, <1>5, <1>7, <2>1, <2>2, <2>3, <2>4 DEF PlayerInv, GoesOn
<1>8. handed > 0
  BY <1>1, <1>2
<1> QED
  BY <1>2, <1>6, <1>7, <1>8 DEF VsInv, PlayerInv, OnBus

(* When the last chunk is out, the player is where it was to get.             *)
LEMMA ChunkLastStep ==
  ASSUME VsInv, ChunkLast
  PROVE  PlayerInv' /\ afterPlayer' = afterPlayer
<1>1. /\ IsBuffer(playBuf) /\ i \in Places /\ i \in Nat /\ top \in 0 .. SONG
      /\ playerPc = "last" /\ handed = i + 1 /\ handed > 0 /\ i' = i + 1
      /\ UNCHANGED <<playBuf, top, broken>>
      /\ playerPc' = IF i + 1 = CHUNKS THEN "deselect" ELSE "first"
  <2>1. /\ playerPc = "last" /\ i' = i + 1 /\ UNCHANGED <<playBuf, top, broken>>
        /\ playerPc' = IF i + 1 = CHUNKS THEN "deselect" ELSE "first"
    BY DEF ChunkLast, LastChunk, reader
  <2>2. IsBuffer(playBuf) /\ i \in Places /\ top \in 0 .. SONG /\ handed = i + 1
    BY <2>1 DEF VsInv, VsTypeOK, PlayerInv, OnBus, handed
  <2>3. i \in Nat
    BY <2>2, PlacesAre
  <2> QED
    BY <2>1, <2>2, <2>3
<1>2. \/ IsPiece(playBuf) /\ top = Topped(i + 1)
      \/ broken /\ Heard(playBuf, top)
  BY <1>1 DEF VsInv, PlayerInv, OnBus
<1>3. afterPlayer = IF playBuf # Garbage /\ top = Topped(i + 1) THEN End(playBuf) ELSE top
  BY <1>1 DEF afterPlayer, OnBus
<1>4. CASE i + 1 = CHUNKS
  <2>1. Topped(i + 1) = End(playBuf)
    BY <1>4 DEF Topped, End
  <2>2. ~ OnBus'
    BY <1>1, <1>4 DEF OnBus
  <2> QED
    BY <1>1, <1>3, <2>1, <2>2 DEF PlayerInv, afterPlayer
<1>5. CASE i + 1 # CHUNKS
  <2>1. playerPc' = "first" /\ handed' = i + 1 /\ OnBus' /\ i' \in Places
    BY <1>1, <1>5, PlacesAre DEF handed, OnBus, Places
  <2>2. Topped(handed)' = Topped(i + 1) /\ End(playBuf)' = End(playBuf)
    BY <1>1, <2>1 DEF Topped, End
  <2>3. handed' # 0 /\ handed' > 0
    BY <1>1, <2>1
  <2>4. afterPlayer' = afterPlayer
    BY <1>1, <1>3, <2>1, <2>2, <2>3 DEF afterPlayer
  <2>5. IsBuffer(playBuf)' /\ (IsPiece(playBuf) => IsPiece(playBuf)')
        /\ (Heard(playBuf, top) => Heard(playBuf, top)')
    BY <1>1 DEF IsBuffer, IsPiece, Heard
  <2> QED
    BY <1>1, <1>2, <2>1, <2>2, <2>3, <2>4, <2>5 DEF PlayerInv
<1> QED
  BY <1>4, <1>5

(* What is put on the bus follows what was put there last.                   *)
LEMMA HandOuts == VsInv /\ ChunkFirst => GoesOn /\ PlayerInv' /\ afterPlayer' = afterPlayer
BY FirstHandOut, LaterHandOut

(* Steps of the player keep the order.                                       *)
LEMMA PlayerSteps == VsInv /\ PlayerStep => VsInv'
<1> SUFFICES ASSUME VsInv, PlayerStep PROVE VsInv'
  OBVIOUS
<1>1. ASSUME PlayerInv', afterPlayer' = afterPlayer, top' \in 0 .. SONG,
             playerPc' \in {"receive", "first", "last", "deselect"},
             UNCHANGED <<reader, Q_songdata>>
      PROVE  VsInv'
  <2>1. afterQueue' = afterQueue
    BY <1>1 DEF afterQueue, After, End
  <2> QED
    BY <1>1, <2>1 DEF VsInv, VsTypeOK, QueueInv, ReaderInv, IsBuffer, IsPiece, Heard, Follows,
                      End, reader
<1>2. CASE ChunkFirst
  <2>1. top' \in 0 .. SONG
    <3>1. IsBuffer(playBuf) /\ i \in Places /\ top \in 0 .. SONG
      BY <1>2 DEF VsInv, VsTypeOK, PlayerInv, OnBus, ChunkFirst
    <3>2. playBuf[i] \in 0 .. SONG
      BY <3>1, PlacesAre DEF IsBuffer
    <3> QED
      BY <1>2, <3>1, <3>2 DEF ChunkFirst, HandOut
  <2> QED
    BY <1>1, <1>2, <2>1, HandOuts DEF ChunkFirst
<1>3. CASE ChunkLast
  BY <1>1, <1>3, ChunkLastStep DEF ChunkLast, VsInv, VsTypeOK
<1>4. CASE Deselect
  <2>1. ~ OnBus /\ ~ OnBus' /\ top' = top
    BY <1>4 DEF Deselect, OnBus
  <2>2. PlayerInv' /\ afterPlayer' = afterPlayer
    BY <2>1 DEF PlayerInv, afterPlayer
  <2> QED
    BY <1>1, <1>4, <2>1, <2>2 DEF Deselect, VsInv, VsTypeOK
<1> QED
  BY <1>2, <1>3, <1>4, ReceiveStep DEF PlayerStep

(* One step per action.                                                      *)
LEMMA VsSteps == VsInv /\ [VsNext]_vsVars => VsInv'
<1> SUFFICES ASSUME VsInv, SpiStep \/ Transfer \/ UNCHANGED vsVars PROVE VsInv'
  BY ReaderSteps, PlayerSteps DEF VsNext
<1>1. UNCHANGED <<reader, Q_songdata, playerPc, playBuf, i, top>>
  BY DEF SpiStep, InitDecoder, dec_rst, ResetDone, Transfer, vsVars, reader, player
<1>2. afterPlayer' = afterPlayer /\ afterQueue' = afterQueue /\ PlayerInv' /\ QueueInv'
  BY <1>1, SamePlayer DEF VsInv, reader
<1> QED
  BY <1>1, <1>2 DEF VsInv, VsTypeOK, ReaderInv, IsBuffer, IsPiece, Heard, Follows, End, reader

(* The invariant holds throughout.                                           *)
LEMMA VsInvariant == VsSafetySpec => []VsInv
BY VsStarts, VsSteps, PTL DEF VsSafetySpec

(* Whatever the lengths of the buffer and of the song, and wherever a read    *)
(* fails: nothing is skipped between the file and the bus (main.c:222-261).   *)
THEOREM SongGoesOnAlways == VsSafetySpec => SongGoesOn
<1>1. VsInv /\ [VsNext]_vsVars =>
        [playerPc = "first" /\ playerPc' = "last" =>
           \/ top' = top + 1
           \/ top = SONG /\ top' \in {SONG, 1}
           \/ broken /\ top' \in {top, 1}]_vsVars
  <2> SUFFICES ASSUME VsInv, VsNext, playerPc = "first", playerPc' = "last" PROVE GoesOn
    BY DEF GoesOn
  <2>1. ChunkFirst
    BY DEF VsNext, ReaderStep, OpenFails, PlayerStep, SendName, ReceiveName, OpenFile, ReadBuffer,
           QueueBuffer, CloseFile, ReceiveBuffer, ChunkLast, Deselect, SpiStep, InitDecoder, dec_rst,
           ResetDone, Transfer, player
  <2> QED
    BY <2>1, HandOuts
<1> QED
  BY <1>1, VsInvariant, PTL DEF VsSafetySpec, SongGoesOn

-----------------------------------------------------------------------------
(* While task_spi sleeps the select is the player's, and after it has taken   *)
(* it away the player drives the select anew for each buffer; in reset only   *)
(* the chunk that was being sent goes on.                                     *)
CutInv ==
  /\ spiPc \in {"sleep", "settle", "reset", "transfers", "idle"}
  /\ cuts \in 0 .. 2 /\ deaf \in BOOLEAN /\ xDCS \in BOOLEAN
  /\ spiPc = "sleep" => cuts = 0 /\ (OnBus => xDCS /\ ~ deaf)
  /\ spiPc = "settle" => cuts <= 1
  /\ spiPc = "reset" /\ playerPc = "last" => deaf
  /\ OnBus => xDCS \/ deaf \/ cuts = 0

(* One step per action: a buffer is cut short by the deselect or by the       *)
(* reset, and neither comes back for another one.                             *)
LEMMA CutSteps == CutInv /\ [VsNext]_vsVars => CutInv'
<1> SUFFICES ASSUME CutInv, [VsNext]_vsVars PROVE CutInv'
  OBVIOUS
<1> USE DEF CutInv, OnBus
<1>1. CASE ReaderStep \/ OpenFails
  BY <1>1 DEF ReaderStep, OpenFails, SendName, ReceiveName, OpenFile, ReadBuffer, QueueBuffer,
              CloseFile, player
<1>2. CASE ReceiveBuffer
  BY <1>2 DEF ReceiveBuffer, dec_dcs
<1>3. CASE ChunkFirst \/ ChunkLast
  <2>1. /\ Hear /\ playerPc \in {"first", "last"} /\ UNCHANGED <<xDCS, spiPc>>
        /\ InReset => deaf /\ playerPc = "last"
        /\ playerPc = "last" => playerPc' # "last"
    BY <1>3 DEF ChunkFirst, ChunkLast, mp3_decoder_needs_data, InReset
  <2>2. CASE deaf \/ (xDCS /\ ~ InReset)
    <3>1. cuts' = cuts /\ (deaf => deaf') /\ (~ deaf => deaf' = deaf) /\ deaf' \in BOOLEAN
      BY <2>1, <2>2 DEF Hear, Cut
    <3> QED
      BY <2>1, <2>2, <3>1 DEF InReset
  <2>3. CASE ~ deaf /\ ~ (xDCS /\ ~ InReset)
    <3>1. cuts = 0 /\ spiPc # "sleep" /\ ~ InReset
      BY <2>1, <2>3
    <3>2. cuts' = cuts + 1 /\ deaf' = TRUE
      BY <2>1, <2>3 DEF Hear, Cut
    <3>3. cuts' = 1
      BY <3>1, <3>2
    <3> QED
      BY <2>1, <3>1, <3>2, <3>3 DEF InReset
  <2> QED
    BY <2>2, <2>3
<1>4. CASE Deselect
  BY <1>4 DEF Deselect, dec_dds
<1>5. CASE InitDecoder \/ ResetDone \/ Transfer
  <2>1. /\ UNCHANGED <<cuts, deaf, playerPc>>
        /\ spiPc' \in {"settle", "transfers", "idle"} /\ (spiPc' = "settle" => cuts = 0)
        /\ cuts = 0 \/ UNCHANGED xDCS
    BY <1>5 DEF InitDecoder, ResetDone, Transfer, player
  <2>2. xDCS' \in BOOLEAN
    BY <1>5 DEF InitDecoder, ResetDone, Transfer, dec_dds
  <2> QED
    BY <2>1, <2>2
<1>6. CASE dec_rst
  <2>1. CASE Begun /\ ~ deaf
    <3>1. cuts' = cuts + 1 /\ deaf' = TRUE
      BY <1>6, <2>1 DEF dec_rst, Cut
    <3> QED
      BY <1>6, <3>1 DEF dec_rst
  <2>2. CASE ~ Begun \/ deaf
    <3>1. cuts' = cuts /\ (deaf => deaf') /\ (~ deaf => deaf' = deaf) /\ deaf' \in BOOLEAN
      BY <1>6, <2>2 DEF dec_rst, Cut
    <3> QED
      BY <1>6, <2>2, <3>1 DEF dec_rst, Begun
  <2> QED
    BY <2>1, <2>2
<1>7. CASE UNCHANGED vsVars
  BY <1>7 DEF vsVars
<1> QED
  BY <1>1, <1>2, <1>3, <1>4, <1>5, <1>6, <1>7 DEF VsNext, PlayerStep, SpiStep

(* The set-up of the decoder while the song plays, its deselect (main.c:339)  *)
(* and its reset (main.c:84, 342), each spoil one buffer at most.             *)
THEOREM SpoiltTwice == VsSafetySpec => []TwoCuts
<1>1. ASSUME VsInit PROVE CutInv
  <2>1. deaf \in BOOLEAN /\ xDCS \in BOOLEAN /\ ~ OnBus
    BY <1>1 DEF VsInit, OnBus
  <2> QED
    BY <1>1, <2>1 DEF VsInit, CutInv
<1>2. CutInv => TwoCuts
  BY DEF CutInv, TwoCuts
<1> QED
  BY <1>1, <1>2, CutSteps, PTL DEF VsSafetySpec
=============================================================================
