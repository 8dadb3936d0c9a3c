------------------------------- MODULE NodeLog -------------------------------
(*****************************************************************************)
(* nodemanager/logging.go: a line aptos-node writes is logged again at the   *)
(* level its text shows. A line is a sequence of pieces, the time stamp left *)
(* out of it; which pieces open or close a bracket is all the regular        *)
(* expression looks at, besides the levels.                                  *)
(*****************************************************************************)
EXTENDS SequencesExt, Naturals

CONSTANTS Opening,  \* the pieces that start with "["
          Closing   \* the pieces that end with "]"

Level == {"ERROR", "WARN", "DEBUG", "INFO"}

ASSUME NodeLogAssumption == Level \cap (Opening \cup Closing) = {}

\* What aptos-node writes: an entry, [component] LEVEL message, its component
\* optional; a panic; or anything else.
EntryLine(component, level, message) ==
  [kind |-> "entry", pieces |-> component \o <<level>> \o message]

PanicLine(pieces) == [kind |-> "panic", pieces |-> pieces]
PlainLine(pieces) == [kind |-> "plain", pieces |-> pieces]

\* A faulty variant, which a run must tell from LevelPositions (as every definition
\* named after another one and a mistake).
LevelPositions_AnyLevel(pieces) == {i \in DOMAIN pieces : pieces[i] \in Level}

\* Where (\[.*\])?\s*(ERROR|WARN|DEBUG|INFO) can match after the stamp: the level
\* comes first, or after what a bracket at the start encloses, up to any closing one.
LevelPositions(pieces) ==
  {i \in DOMAIN pieces :
     /\ pieces[i] \in Level
     /\ i > 1 => pieces[1] \in Opening /\ pieces[i - 1] \in Closing}

Matches(line) == line.kind = "entry" /\ LevelPositions(line.pieces) # {}

\* The star is greedy: the last closing bracket a level follows is the one taken.
LevelPosition(pieces) ==
  CHOOSE i \in LevelPositions(pieces) : \A j \in LevelPositions(pieces) : j <= i

logLevelReader(line) ==
  IF Matches(line) THEN line.pieces[LevelPosition(line.pieces)]
  ELSE IF line.kind = "panic" THEN "ERROR"
  ELSE "INFO"

\* A level in brackets before the matched one stays in the text.
stripPrefix(line) ==
  IF Matches(line) THEN RemoveAt(line.pieces, LevelPosition(line.pieces)) ELSE line.pieces
===============================================================================
