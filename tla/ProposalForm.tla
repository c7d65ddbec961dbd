---------------------------- MODULE ProposalForm ----------------------------
(***************************************************************************)
(* Proposing a market or a group of answers: the same form twice, in                     *)
(* frontend/src/pages/create/Create.jsx and                                               *)
(* frontend/src/pages/testadmincreate/TestAdminCreate.jsx, with api/marketsApi.js.         *)
(*                                                                         *)
(* Nothing keeps the author from pressing again while a proposal is under way: each press   *)
(* is a proposal, and each proposal is paid for.  Only leaving the page on the first answer   *)
(* ends it.  A label is "" or one of Labels, told apart as the form does.                        *)
(***************************************************************************)
EXTENDS Naturals, Sequences, FiniteSets, SequencesExt

CONSTANTS Labels, Tags, None,
          MaxTags,         \* the tags a market may have
          HardCap,         \* the answers a group may have before the setup is read
          SetupCap,        \* and as the setup says
          MaxRequests      \* bound on the proposals sent

VARIABLE proposal

Texts == Labels \union {""}
ConstantsOK ==
    /\ {MaxTags, HardCap, SetupCap, MaxRequests} \subseteq Nat
    /\ None \notin [of : 0..MaxRequests]

Init ==
    proposal =
      [kind |-> "binary", answers |-> <<"", "">>, tags |-> {}, known |-> {}, fits |-> TRUE,
       cap |-> HardCap, loading |-> TRUE, created |-> None, left |-> FALSE,
       asked |-> {}, sent |-> 0, made |-> 0,
       again |-> FALSE,    \* pressed while a proposal was under way,
       lost |-> FALSE,     \* an answer was lost on its way,
       stayed |-> FALSE]   \* a group was made and its answer named no market to go to

Form(p) == ~proposal.left /\ proposal' = p
-----------------------------------------------------------------------------
SetupLoaded ==
    \E ok \in BOOLEAN :
        /\ proposal.loading
        /\ Form([proposal EXCEPT !.loading = FALSE, !.cap = IF ok THEN SetupCap ELSE @])

TagsLoaded == proposal.known = {} /\ Form([proposal EXCEPT !.known = Tags])

TagButtons == proposal.known

(* One tag too many is refused. *)
ToggleTag(tag) ==
    /\ tag \in TagButtons
    /\ IF tag \in proposal.tags THEN Form([proposal EXCEPT !.tags = @ \ {tag}])
       ELSE Cardinality(proposal.tags) < MaxTags /\ Form([proposal EXCEPT !.tags = @ \union {tag}])

Choose(kind) == kind # proposal.kind /\ Form([proposal EXCEPT !.kind = kind])

(* The names of the two outcomes and the date fit, or do not. *)
WriteRest == Form([proposal EXCEPT !.fits = ~@])

AnswersShown == proposal.kind = "group"

WriteAnswer(i, label) ==
    /\ AnswersShown /\ label # proposal.answers[i]
    /\ Form([proposal EXCEPT !.answers[i] = label])

AddAnswer ==
    /\ AnswersShown
    /\ Len(proposal.answers) < proposal.cap
    /\ Form([proposal EXCEPT !.answers = Append(@, "")])

(* Mutant of RemoveOffered: every answer can be removed. *)
RemoveOfferedAlways == TRUE

RemoveOffered == Len(proposal.answers) > 2
RemoveAnswer(i) == AnswersShown /\ RemoveOffered /\ Form([proposal EXCEPT !.answers = RemoveAt(@, i)])
-----------------------------------------------------------------------------
(* Pressing the button.                                                      *)
\* The fields filled in, and their labels: a group is asked for with these, in their order.
Filled  == {i \in DOMAIN proposal.answers : proposal.answers[i] # ""}
Written == {proposal.answers[i] : i \in Filled}
Different == \A i, j \in Filled : (i # j) => proposal.answers[i] # proposal.answers[j]

(* Mutant of AnswersAccepted: fields left empty count as answers. *)
AnswersAcceptedEmpty ==
    /\ Len(proposal.answers) >= 2 /\ Len(proposal.answers) <= proposal.cap
    /\ Different

AnswersAccepted ==
    /\ Cardinality(Filled) >= 2 /\ Cardinality(Filled) <= proposal.cap
    /\ Different

(* A button may be pressed at any time: the form knows nothing of a proposal under way. *)
Accepted == proposal.fits /\ (proposal.kind = "binary" \/ AnswersAccepted)

Submit ==
    /\ proposal.sent < MaxRequests
    /\ LET request == [number |-> proposal.sent, kind |-> proposal.kind,
                       answers |-> IF proposal.kind = "group" THEN Written ELSE {},
                       fields |-> IF proposal.kind = "group" THEN Cardinality(Filled) ELSE 0,
                       served |-> FALSE]
       IN  Form(IF ~Accepted THEN [proposal EXCEPT !.created = None]
                ELSE [proposal EXCEPT !.created = None, !.sent = @ + 1,
                                      !.asked = @ \union {request}, !.again = @ \/ proposal.asked # {}])

(* The server makes the market and takes its cost. *)
Serve ==
    \E request \in proposal.asked :
        /\ ~request.served
        /\ proposal' = [proposal EXCEPT !.asked = (@ \ {request}) \union {[request EXCEPT !.served = TRUE]},
                                        !.made = @ + 1]

(* Mutant of Leaves: a market proposed is only shown. *)
LeavesNever(p, request) == [p EXCEPT !.created = [of |-> request.number]]

(* The page of the market, or the author's proposals, take over. *)
Leaves(p, request) == [p EXCEPT !.left = TRUE]

(* The answer of a market, and of a group that names its first market. *)
Answered ==
    \E request \in proposal.asked :
        /\ request.served
        /\ proposal' = Leaves([proposal EXCEPT !.asked = @ \ {request}], request)

AnsweredBare ==
    \E request \in proposal.asked :
        /\ request.served /\ request.kind = "group"
        /\ proposal' = [proposal EXCEPT !.asked = @ \ {request}, !.stayed = TRUE,
                                        !.created = [of |-> request.number]]

Refused ==
    \E request \in proposal.asked :
        /\ ~request.served
        /\ proposal' = [proposal EXCEPT !.asked = @ \ {request}]

(* An answer that is lost shows as a refusal does. *)
Lost ==
    \E request \in proposal.asked :
        request.served /\ proposal' = [proposal EXCEPT !.asked = @ \ {request}, !.lost = TRUE]

Panel == IF proposal.created = None THEN "none" ELSE "proposed"

Next ==
    \/ SetupLoaded \/ TagsLoaded \/ WriteRest \/ AddAnswer \/ Submit
    \/ Serve \/ Answered \/ AnsweredBare \/ Refused \/ Lost
    \/ \E tag \in Tags : ToggleTag(tag)
    \/ \E kind \in {"binary", "group"} : Choose(kind)
    \/ \E i \in DOMAIN proposal.answers :
          RemoveAnswer(i) \/ \E label \in Labels \union {""} : WriteAnswer(i, label)

Spec == Init /\ [][Next]_proposal
-----------------------------------------------------------------------------
Requests == [number : 0..MaxRequests, kind : {"binary", "group"}, answers : SUBSET Labels,
             fields : Nat, served : BOOLEAN]
FormType ==
    [kind : {"binary", "group"}, answers : Seq(Texts), tags : SUBSET Tags, known : {{}, Tags},
     fits : BOOLEAN, cap : {HardCap, SetupCap}, loading : BOOLEAN,
     created : [of : 0..MaxRequests] \union {None}, left : BOOLEAN, asked : SUBSET Requests,
     sent : 0..MaxRequests, made : Nat, again : BOOLEAN, lost : BOOLEAN, stayed : BOOLEAN]

(* The form keeps at least two answers and no tag too many; the panel is of a proposal. *)
TypeOK ==
    /\ proposal \in FormType
    /\ Len(proposal.answers) >= 2 /\ Cardinality(proposal.tags) <= MaxTags
    /\ (Panel = "proposed" => proposal.created.of < proposal.sent)
    /\ \A request \in proposal.asked : request.number < proposal.sent

(* An author pays for more than one proposal only after pressing again while one was under   *)
(* way, after an answer was lost, or after an answer that named no market.                     *)
PaidTwiceOnlyAfterPress == proposal.made > 1 => proposal.again \/ proposal.lost \/ proposal.stayed

(* Before that there is one proposal: it is under way, or its answer has been shown. *)
OneProposal ==
    ~(proposal.again \/ proposal.lost \/ proposal.stayed) =>
        /\ \A p, q \in proposal.asked : p = q
        /\ proposal.made <= 1
        /\ \A p \in proposal.asked : p.served <=> proposal.made = 1
        /\ (proposal.asked = {} /\ ~proposal.left) => proposal.made = 0

(* What reaches the server as a group has at least two answers, all different. *)
GroupsAreGroups ==
    \A request \in proposal.asked :
        request.kind = "group" =>
            request.fields >= 2 /\ Cardinality(request.answers) = request.fields

(* What every step keeps. *)
ProposalInv == TypeOK /\ IsFiniteSet(proposal.tags) /\ OneProposal /\ GroupsAreGroups
=============================================================================
