CONSTANTS
  BLOCKS = 2
  FILE = 5
  WHOLE = 4
  CHUNKS = 3
  SONG = 7
SPECIFICATION PlayersSpec
INVARIANTS RefillAlone SongInOrder SongComplete TwoCuts
PROPERTIES SongEnds SongGoesOn SongRepeats
