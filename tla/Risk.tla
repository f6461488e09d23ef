-------------------------------- MODULE Risk --------------------------------
(***************************************************************************)
(* The class of a tool, from the words of its name: app/firewall/risk.py.  *)
(*                                                                         *)
(* The word lists are data.  A name is abstracted to the lists its words   *)
(* are found in; a word may be in several ("execute" is a launch verb and  *)
(* a HIGH word, "cmd" a CRITICAL one and a code object).                   *)
(***************************************************************************)
EXTENDS Integers

CONSTANTS
    Tool,           \* the names an agent can ask for
    WordLists,      \* the lists in which words of each name are found
    Overrides,      \* policy.tool_risk: the class of each tool, or
    NotOverridden   \* none

\* RiskLevel
LOW == 1
MEDIUM == 2
HIGH == 3
CRITICAL == 4
RiskLevel == {LOW, MEDIUM, HIGH, CRITICAL}

WordList == {"critical", "launch", "code", "high", "medium", "low"}

ASSUME RiskAssumption ==
    /\ WordLists \in [Tool -> SUBSET WordList]
    /\ NotOverridden \notin RiskLevel
    /\ Overrides \in [Tool -> RiskLevel \cup {NotOverridden}]

\* The most dangerous list decides; "run" is MEDIUM and "code" is nothing,
\* but a launch verb and a code object together are CRITICAL.  A name with no
\* known word is MEDIUM.
ByName(found) ==
    IF "critical" \in found \/ {"launch", "code"} \subseteq found THEN CRITICAL
    ELSE IF "high" \in found THEN HIGH
    ELSE IF "medium" \in found THEN MEDIUM
    ELSE IF "low" \in found THEN LOW
    ELSE MEDIUM

\* RiskClassifier.classify(): the policy's override wins.
Classify(tool) == IF Overrides[tool] # NotOverridden THEN Overrides[tool]
                  ELSE ByName(WordLists[tool])
=============================================================================
