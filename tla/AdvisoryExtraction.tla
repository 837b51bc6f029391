------------------------ MODULE AdvisoryExtraction ------------------------
(***************************************************************************)
(* What extraction promises to the people who review a sheet, whatever     *)
(* the number of requests, retries and failures behind it: at most once,   *)
(* a recognizer's answer for the whole sheet appears, with one advisory    *)
(* mark for every item it read, and neither is changed afterwards.         *)
(***************************************************************************)
CONSTANTS Items, AiMarks, NoMark

VARIABLES
  suggestion, \* <<>>, or the one answer
  advice      \* advisory rows of each item: position in its history, mark

Init ==
  /\ suggestion = <<>>
  /\ advice = [i \in Items |-> {}]

Advise(answer) ==
  /\ suggestion = <<>>
  /\ suggestion' = <<answer>>
  /\ advice' = [i \in Items |-> IF answer[i] = NoMark THEN {}
                                ELSE {<<1, answer[i]>>}]

Next == \E answer \in [Items -> AiMarks \cup {NoMark}] : Advise(answer)

Spec == Init /\ [][Next]_<<suggestion, advice>>
============================================================================
