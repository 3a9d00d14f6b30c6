---------------------------- MODULE Vs1053Player ----------------------------
(***************************************************************************)
(* The VS1053B player, LPC40XX_MCU_RTOS/VS1053B_SPI/main.c.  The reader    *)
(* task reads a song buffer by buffer into the queue Q_songdata, which     *)
(* holds one; the player task takes a buffer and sends it to the decoder   *)
(* chunk by chunk; task_spi, some time after the other two have begun,     *)
(* resets and configures the decoder over the same bus.                    *)
(*                                                                         *)
(* task_spi has the higher priority: what it does between two delays is    *)
(* one step of the others.  Between it and the player there is no lock: it *)
(* can run between any two bytes of a chunk, so a chunk is two steps.      *)
(*                                                                         *)
(* Sizes are in chunks of 32 bytes.  An operator with a suffix (_missing,  *)
(* _unchecked...) is the faulty twin of the one below it; no action uses   *)
(* it.                                                                     *)
(***************************************************************************)
EXTENDS Integers, Sequences

CONSTANTS
  CHUNKS,     (* chunks of a buffer of 512 bytes, 16 in the program          *)
  SONG        (* chunks of the song                                          *)

ASSUME Vs1053PlayerAssumption == CHUNKS \in Nat \ {0} /\ SONG \in Nat \ {0, 1}

Buffers == [0 .. CHUNKS - 1 -> 0 .. SONG]     (* 0 is what no f_read wrote *)
Garbage == [c \in 0 .. CHUNKS - 1 |-> 0]

VARIABLES
  readerPc, readBuf, byte_been_read, byte_read,   (* the reader and its locals    *)
  broken,                  (* the open file has met a read error             *)
  Q_songname, Q_songdata,
  playerPc, playBuf, i,         (* the player and its locals                      *)
  spiPc,                     (* task_spi                                       *)
  xDCS,                    (* TRUE while the decoder's data select is driven *)
  top,                     (* history: furthest chunk of this round handed out *)
  deaf, cuts               (* history: a part of this buffer met no select   *)
                           (* or no decoder; buffers to which that happened  *)

reader == <<readerPc, readBuf, byte_been_read, byte_read, broken, Q_songname>>
player == <<playerPc, playBuf, i, top, deaf, cuts>>
vsVars == <<readerPc, readBuf, byte_been_read, byte_read, broken, Q_songname, Q_songdata,
          playerPc, playBuf, i, spiPc, xDCS, top, deaf, cuts>>

VsInit ==
  /\ readerPc = "send" /\ readBuf = Garbage /\ byte_been_read = 0 /\ byte_read = 0
  /\ broken = FALSE
  /\ Q_songname = 0 /\ Q_songdata = <<>>
  /\ playerPc = "receive" /\ playBuf = Garbage /\ i = 0
  /\ spiPc = "sleep"
  /\ xDCS = FALSE
  /\ top = 0 /\ deaf = FALSE /\ cuts = 0

(***************************************************************************)
(* mp3_reader_task.                                                        *)
(***************************************************************************)
(* The task names the song to itself, through a queue of one. *)
SendName ==
  /\ readerPc = "send" /\ Q_songname = 0
  /\ Q_songname' = 1
  /\ readerPc' = "receive"
  /\ UNCHANGED <<readBuf, byte_been_read, byte_read, broken, Q_songdata, player, spiPc, xDCS>>

ReceiveName ==
  /\ readerPc = "receive" /\ Q_songname = 1
  /\ Q_songname' = 0
  /\ readerPc' = "open"
  /\ UNCHANGED <<readBuf, byte_been_read, byte_read, broken, Q_songdata, player, spiPc, xDCS>>

FromStart_missing == UNCHANGED byte_been_read

FromStart == byte_been_read' = 0

OpenFile ==
  /\ readerPc = "open"
  /\ FromStart
  /\ readerPc' = "read"
  /\ UNCHANGED <<readBuf, byte_read, broken, Q_songname, Q_songdata, player, spiPc, xDCS>>

OpenFails ==
  /\ readerPc = "open"
  /\ readerPc' = "send"
  /\ UNCHANGED <<readBuf, byte_been_read, byte_read, broken, Q_songname, Q_songdata,
                 player, spiPc, xDCS>>

Read(length) ==
  /\ byte_read' = length
  /\ readBuf' = [c \in 0 .. CHUNKS - 1 |->
                   IF c < length THEN byte_been_read + c + 1 ELSE readBuf[c]]

(* f_read is short at the end of the file, and the rest of the buffer stays;  *)
(* its result is not looked at.  A file with a read error never recovers.     *)
ReadBuffer ==
  /\ readerPc = "read" /\ byte_been_read < SONG
  /\ \/ ~broken /\ UNCHANGED broken
        /\ Read(IF SONG - byte_been_read < CHUNKS THEN SONG - byte_been_read ELSE CHUNKS)
     \/ broken' = TRUE /\ Read(0)
  /\ readerPc' = "queue"
  /\ UNCHANGED <<byte_been_read, Q_songname, Q_songdata, player, spiPc, xDCS>>

xQueueSend_unchecked == Q_songdata' = <<readBuf>>

(* It blocks while the queue is full. *)
xQueueSend == Q_songdata = <<>> /\ Q_songdata' = <<readBuf>>

QueueBuffer ==
  /\ readerPc = "queue"
  /\ xQueueSend
  /\ byte_been_read' = byte_been_read + byte_read
  /\ readerPc' = "read"
  /\ UNCHANGED <<readBuf, byte_read, broken, Q_songname, player, spiPc, xDCS>>

CloseFile ==
  /\ readerPc = "read" /\ byte_been_read >= SONG
  /\ readerPc' = "send"
  /\ UNCHANGED <<readBuf, byte_been_read, byte_read, broken, Q_songname, Q_songdata,
                 player, spiPc, xDCS>>

(***************************************************************************)
(* mp3_player_task.                                                        *)
(***************************************************************************)
dec_dcs_missing == UNCHANGED xDCS

dec_dcs == xDCS' = TRUE

dec_dds == xDCS' = FALSE

ReceiveBuffer ==
  /\ playerPc = "receive" /\ Q_songdata # <<>>
  /\ playBuf' = Q_songdata[1]
  /\ Q_songdata' = <<>>
  /\ dec_dcs
  /\ i' = 0
  /\ deaf' = FALSE
  /\ playerPc' = "first"
  /\ UNCHANGED <<reader, spiPc, top, cuts>>

InReset == spiPc = "reset"

mp3_decoder_needs_data_unchecked == TRUE

(* The level of DREQ, which the decoder raises in the end, but not in reset.  *)
mp3_decoder_needs_data == ~InReset

Cut == deaf' = TRUE /\ cuts' = IF deaf THEN cuts ELSE cuts + 1

(* Nobody hears what is sent while the select is not driven, or in reset. *)
Hear == IF xDCS /\ ~InReset THEN UNCHANGED <<deaf, cuts>> ELSE Cut

(* The song begins anew with its chunk 1 at the head of a buffer. *)
HandOut(chunk) ==
  top' = IF (i = 0 /\ chunk = 1) \/ chunk > top THEN chunk ELSE top

ChunkFirst ==
  /\ playerPc = "first"
  /\ mp3_decoder_needs_data
  /\ Hear
  /\ HandOut(playBuf[i])
  /\ playerPc' = "last"
  /\ UNCHANGED <<reader, Q_songdata, playBuf, i, spiPc, xDCS>>

LastChunk == i + 1 = CHUNKS

ChunkLast ==
  /\ playerPc = "last"
  /\ Hear
  /\ i' = i + 1
  /\ playerPc' = IF LastChunk THEN "deselect" ELSE "first"
  /\ UNCHANGED <<reader, Q_songdata, playBuf, top, spiPc, xDCS>>

Deselect ==
  /\ playerPc = "deselect"
  /\ mp3_decoder_needs_data
  /\ dec_dds
  /\ playerPc' = "receive"
  /\ UNCHANGED <<reader, Q_songdata, playBuf, i, top, deaf, cuts, spiPc>>

(***************************************************************************)
(* task_spi.                                                               *)
(***************************************************************************)
(* dec_init deselects data and control, and 100 ticks later resets the        *)
(* decoder for another 100 ticks.                                             *)
InitDecoder ==
  /\ spiPc = "sleep"
  /\ dec_dds
  /\ spiPc' = "settle"
  /\ UNCHANGED <<reader, Q_songdata, player>>

(* Some of the buffer has been sent, and more is to come. *)
Begun == playerPc = "last" \/ (playerPc = "first" /\ i > 0)

(* The decoder forgets the part of a buffer that it has. *)
dec_rst ==
  /\ spiPc = "settle"
  /\ spiPc' = "reset"
  /\ IF Begun THEN Cut ELSE UNCHANGED <<deaf, cuts>>
  /\ UNCHANGED <<reader, Q_songdata, playerPc, playBuf, i, top, xDCS>>

ResetDone ==
  /\ spiPc = "reset"
  /\ spiPc' = "transfers"
  /\ UNCHANGED <<reader, Q_songdata, player, xDCS>>

(* The register writes and the reads leave the data select alone, whoever     *)
(* drives it.                                                                 *)
Transfer ==
  /\ spiPc = "transfers"
  /\ spiPc' \in {"transfers", "idle"}
  /\ UNCHANGED <<reader, Q_songdata, player, xDCS>>
-----------------------------------------------------------------------------
ReaderStep ==
  \/ SendName \/ ReceiveName \/ OpenFile \/ ReadBuffer \/ QueueBuffer \/ CloseFile

PlayerStep == ReceiveBuffer \/ ChunkFirst \/ ChunkLast \/ Deselect

SpiStep == InitDecoder \/ dec_rst \/ ResetDone

VsNext == ReaderStep \/ OpenFails \/ PlayerStep \/ SpiStep \/ Transfer

VsSafetySpec == VsInit /\ [][VsNext]_vsVars

(* Reader and player take turns, task_spi sleeps most of the time, and its    *)
(* sleeps end; the file can be opened, in the end, and out of reset the       *)
(* decoder asks for data.                                                     *)
VsSpec ==
  /\ VsSafetySpec
  /\ WF_vsVars(ReaderStep) /\ SF_vsVars(OpenFile) /\ WF_vsVars(PlayerStep)
  /\ WF_vsVars(SpiStep)
-----------------------------------------------------------------------------
(* Every chunk handed to the decoder is the next one of the song; after the  *)
(* last, what an earlier buffer left behind it may follow, and then the song *)
(* begins again.  Nothing is skipped between the file, the queue and the     *)
(* bus; only a read error makes old chunks come back earlier.                *)
SongGoesOn ==
  [][playerPc = "first" /\ playerPc' = "last" =>
       \/ top' = top + 1
       \/ top = SONG /\ top' \in {SONG, 1}
       \/ broken /\ top' \in {top, 1}]_vsVars

(* task_spi sets the decoder up while the song plays.  Taking the data select *)
(* away spoils at most one buffer, since the player drives it anew for the    *)
(* next, and so does the reset, since the player waits for DREQ before every  *)
(* chunk and a decoder in reset does not raise it.                            *)
TwoCuts ==
  cuts <= CASE spiPc = "sleep" -> 0 [] spiPc = "settle" -> 1 [] OTHER -> 2

(* Once the reader has begun, the song begins again and again for as long as  *)
(* the card can be read.                                                      *)
SongRepeats ==
  []<>(readerPc # "send" \/ Q_songname = 1) => []<>(top = 1 \/ broken)
=============================================================================
