--------------------------- MODULE PositionPanel ---------------------------
(***************************************************************************)
(* The position line of MultiChoiceTradePanel: the effect that fetches the    *)
(* user's shares of the selected answer, after every trade again, and         *)
(* PositionSummary, which labels what came last with the answer selected now  *)
(* (frontend/src/components/testmarketdetails).                              *)
(***************************************************************************)
EXTENDS Naturals

CONSTANTS Answers, None,
          MaxFetches   \* bound on the fetches sent

VARIABLE position

ConstantsOK == Answers # {} /\ None \notin Answers /\ MaxFetches \in Nat

Fetches == [id : Nat \ {0}, of : Answers]

Panel ==
    [answer : Answers, login : BOOLEAN, shown : Answers \union {None}, held : BOOLEAN,
     live : Nat, sent : Nat, flight : SUBSET Fetches, failed : BOOLEAN]

Init == position = [answer |-> CHOOSE a \in Answers : TRUE, login |-> TRUE, shown |-> None,
                    held |-> FALSE, live |-> 0, sent |-> 0, flight |-> {}, failed |-> FALSE]

(* The effect: its cleanup cancels the fetch before it, logged out it clears. *)
PositionEffect(p) ==
    IF p.login
    THEN [p EXCEPT !.sent = @ + 1, !.live = p.sent + 1, !.failed = FALSE,
                   !.flight = @ \union {[id |-> p.sent + 1, of |-> p.answer]}]
    ELSE [p EXCEPT !.live = 0, !.shown = None]

Open == position.sent = 0 /\ position' = PositionEffect(position)

Change(p) == position.sent \in 1..(MaxFetches - 1) /\ position' = PositionEffect(p)

Select(a) == a # position.answer /\ Change([position EXCEPT !.answer = a])
Traded    == position.login /\ Change(position)
Login     == Change([position EXCEPT !.login = ~@])

(* Mutant of Answered: the answer of a cancelled fetch is shown, too. *)
AnsweredUncancelled ==
    \E r \in position.flight, ok \in BOOLEAN, held \in BOOLEAN :
        position' = IF ok
                    THEN [position EXCEPT !.flight = @ \ {r}, !.shown = r.of, !.held = held]
                    ELSE [position EXCEPT !.flight = @ \ {r}, !.failed = (r.id = position.live) \/ @]

(* A cancelled fetch changes nothing; a failed one leaves the line as it was. *)
Answered ==
    \E r \in position.flight, ok \in BOOLEAN, held \in BOOLEAN :
        LET done == [position EXCEPT !.flight = @ \ {r}]
        IN  position' = IF r.id # position.live THEN done
                        ELSE IF ok THEN [done EXCEPT !.shown = r.of, !.held = held]
                        ELSE [done EXCEPT !.failed = TRUE]

(* PositionSummary renders nothing for a user who never invested. *)
Line == IF position.shown # None /\ position.held THEN position.shown ELSE None

Next == Open \/ (\E a \in Answers : Select(a)) \/ Traded \/ Login \/ Answered

Spec == Init /\ [][Next]_position
-----------------------------------------------------------------------------
(* The fields stay in their sets; only requests that were sent are under way. *)
TypeOK == position \in Panel /\ position.live <= position.sent
              /\ \A r \in position.flight : r.id <= position.sent

(* The position of another answer stands under the selected one's name only while *)
(* the fetch of the selected one is under way or after it failed, and a user who  *)
(* logged out sees none.                                                        *)
ForeignPositionOnlyUnanswered ==
    /\ Line \notin {None, position.answer} =>
           position.failed \/ \E r \in position.flight : r.id = position.live
    /\ ~position.login => Line = None

(* What makes it inductive: the fetch that counts is of the selected answer, and there is  *)
(* none, nor a line, without a login.                                                       *)
LiveIsOfTheAnswer ==
    /\ \A r \in position.flight : r.id = position.live => r.of = position.answer
    /\ ~position.login => position.live = 0 /\ position.shown = None

PositionInv == TypeOK /\ ForeignPositionOnlyUnanswered /\ LiveIsOfTheAnswer
=============================================================================
