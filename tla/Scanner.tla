------------------------------ MODULE Scanner ------------------------------
(***************************************************************************)
(* The walk of the scanner over a JSON-like value: app/firewall/scanner.py *)
(*                                                                         *)
(* A value is a tree, given as a function on the places of its parts.  A   *)
(* place is the path of child positions that leads to the part, the root   *)
(* being <<>>; a mapping of n entries has 2n children, each key right      *)
(* before its value.  A text is its length and whether it is dirty: some   *)
(* rule of the scan's direction matches it.  The rules themselves are      *)
(* data.  Every other leaf (None, a boolean, a number) is "plain".         *)
(*                                                                         *)
(* A step is one call of _walk() or _scan_string(), or one return to the   *)
(* loop of the container above.  The place the walk is at stands for the   *)
(* stack: the calls of _walk() that are open are at its prefixes.          *)
(***************************************************************************)
EXTENDS Integers, SequencesExt

CONSTANTS
    Values,         \* the values that may be scanned
    MaxChars,       \* policy.scanner.max_scan_chars
    MaxDepth        \* max_depth

Part == [kind : {"plain", "text", "key", "container"},
         width : Nat,           \* how many children it has
         len : Nat, dirty : BOOLEAN]

\* A finite tree: below the root, every part and all that lies between are
\* children of containers that have so many.
IsTree(v) ==
    /\ IsFiniteSet(DOMAIN v) /\ DOMAIN v \subseteq Seq(Nat \ {0})
    /\ <<>> \in DOMAIN v
    /\ \A p \in DOMAIN v :
          /\ v[p] \in Part
          /\ v[p].kind # "container" => v[p].width = 0
          /\ \A i \in 1..v[p].width : Append(p, i) \in DOMAIN v
          /\ \A k \in 1..Len(p) :
                LET above == SubSeq(p, 1, k - 1)
                IN above \in DOMAIN v /\ p[k] =< v[above].width

ASSUME ScannerAssumption == /\ MaxChars \in Nat /\ MaxDepth \in Nat
                            /\ \A v \in Values : IsTree(v)

VARIABLES
    value,          \* the value that is given to scan_value()
    at,             \* the place of the part the walk is at
    phase,          \* "entering" or "leaving" that part, or "done"
    budget, findings, stop,         \* _State
    matched         \* history: the places of the texts the rules have seen

vars == <<value, at, phase, budget, findings, stop, matched>>

Here == value[at]

\* What a text takes from the budget.
Cost(text) == text.len + 1

\* scan_value()
Init == /\ value \in Values
        /\ at = <<>>
        /\ phase = "entering"
        /\ budget = MaxChars /\ findings = <<>> /\ stop = FALSE
        /\ matched = {}
-----------------------------------------------------------------------------
Report(rule) == findings' = Append(findings, [rule |-> rule, at |-> at])

\* Mistake: a limit does not end the walk.
LimitGoesOn(rule) == Report(rule) /\ UNCHANGED stop

\* A limit is reported, and ends the walk.
Limit(rule) == Report(rule) /\ stop' = TRUE

\* scan_text()
ScanText == /\ matched' = matched \cup {at}
            /\ IF Here.dirty THEN Report("rule") ELSE UNCHANGED findings

\* Mistake: what is over the budget is left out without a word.
ScanStringQuietly ==
    /\ budget' = budget - Cost(Here)
    /\ IF budget' < 0 THEN stop' = TRUE /\ UNCHANGED <<findings, matched>>
       ELSE ScanText /\ UNCHANGED stop

\* Mistake: the budget is looked at after the rules have run.
ScanStringThenCheck ==
    /\ budget' = budget - Cost(Here)
    /\ ScanText
    /\ stop' = (budget' < 0)

\* _scan_string(): the budget is charged before a rule sees the text.
ScanString ==
    /\ budget' = budget - Cost(Here)
    /\ \/ budget' < 0 /\ Limit("oversized_payload") /\ UNCHANGED matched
       \/ budget' >= 0 /\ ScanText /\ UNCHANGED stop
-----------------------------------------------------------------------------
Returns == phase' = "leaving" /\ UNCHANGED <<value, at>>

\* The loop over a mapping scans the key of an entry before it walks the value.
ScansKey == /\ phase = "entering" /\ Here.kind = "key"
            /\ ScanString
            /\ Returns

\* _walk() is called.  The depth counts for every kind of value, also an
\* empty one.  (That the walk has not stopped holds at every call.)
Walks == phase = "entering" /\ Here.kind # "key"

WalksTooDeep == /\ Walks /\ Len(at) > MaxDepth
                /\ Limit("excessive_nesting")
                /\ Returns
                /\ UNCHANGED <<budget, matched>>

WalksText == /\ Walks /\ Len(at) =< MaxDepth /\ Here.kind = "text"
             /\ ScanString
             /\ Returns

\* A number, or an empty container.
WalksNothing == /\ Walks /\ Len(at) =< MaxDepth
                /\ Here.kind # "text" /\ Here.width = 0
                /\ Returns
                /\ UNCHANGED <<budget, findings, stop, matched>>

\* The loop over the children begins with the first.
Opens == /\ Walks /\ Len(at) =< MaxDepth /\ Here.width > 0
         /\ at' = Append(at, 1)
         /\ UNCHANGED <<value, phase, budget, findings, stop, matched>>

\* The loop of the container above, after a child: it goes on to the next one
\* unless the walk has stopped.
GoesOn == /\ phase = "leaving" /\ at # <<>>
          /\ ~stop /\ Last(at) < value[Front(at)].width
          /\ at' = Append(Front(at), Last(at) + 1)
          /\ phase' = "entering"
          /\ UNCHANGED <<value, budget, findings, stop, matched>>

\* The last child is done or the walk has stopped: the loop is left.
Closes == /\ phase = "leaving" /\ at # <<>>
          /\ stop \/ Last(at) >= value[Front(at)].width
          /\ at' = Front(at)
          /\ UNCHANGED <<value, phase, budget, findings, stop, matched>>

\* scan_value() returns the findings; the value is blocked if there are any.
Ends == /\ phase = "leaving" /\ at = <<>>
        /\ phase' = "done"
        /\ UNCHANGED <<value, at, budget, findings, stop, matched>>

Finished == phase = "done" /\ UNCHANGED vars

Next == \/ ScansKey \/ WalksTooDeep \/ WalksText \/ WalksNothing \/ Opens
        \/ GoesOn \/ Closes \/ Ends \/ Finished

Spec == Init /\ [][Next]_vars
-----------------------------------------------------------------------------
(***************************************************************************)
(* The value itself, without budget, depth or early return.                *)
(***************************************************************************)

\* The places of its texts, mapping keys included.
Texts == {p \in DOMAIN value : value[p].kind \in {"text", "key"}}

TotalCost(places) == MapThenSumSet(LAMBDA p : Cost(value[p]), places)

\* Document order: a container comes before its children, a key before its
\* value, and all that is in one child before the next.
Precedes(p, q) ==
    \E k \in 0..Len(p) :
        /\ k < Len(q) /\ \A j \in 1..k : p[j] = q[j]
        /\ k = Len(p) \/ p[k + 1] < q[k + 1]

\* "Nothing unscanned reaches the agent" (README.md:44): a value passes if
\* and only if none of its texts, mapping keys included, is dirty, all of
\* them fit the budget and no part of it lies too deep, however the budget,
\* the depth and the early returns interact.
BlockedExactly ==
    phase = "done" =>
        ((findings # <<>>) <=>
            \/ \E p \in Texts : value[p].dirty
            \/ TotalCost(Texts) > MaxChars
            \/ \E p \in DOMAIN value : value[p].kind # "key" /\ Len(p) > MaxDepth)

\* The places of the limits that were met, and the texts before them.
Limits == {i \in DOMAIN findings : findings[i].rule # "rule"}

Before == {p \in Texts : \A i \in Limits : Precedes(p, findings[i].at)}

\* The rules have seen just the texts before the limit, and the findings are
\* those of the dirty ones among them, in document order, and then the limit
\* if there is one, at the first part that does not fit the budget or the
\* depth; without one, every text was seen.
FindingsExact ==
    phase = "done" =>
        /\ matched = Before
        /\ {findings[i].at : i \in DOMAIN findings \ Limits}
              = {p \in Before : value[p].dirty}
        /\ \A i, j \in DOMAIN findings :
              i < j => i \notin Limits /\ Precedes(findings[i].at, findings[j].at)
        /\ \A i \in Limits :
              LET f == findings[i]
              IN \/ /\ f.rule = "oversized_payload" /\ f.at \in Texts
                    /\ TotalCost(Before \cup {f.at}) > MaxChars
                 \/ f.rule = "excessive_nesting" /\ Len(f.at) = MaxDepth + 1

\* The rules never run over more text than the budget allows, so a large
\* request cannot hold the event loop for longer than that takes.
WorkBounded == TotalCost(matched) =< MaxChars
=============================================================================
