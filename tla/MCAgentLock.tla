---------------------------- MODULE MCAgentLock ----------------------------
(* Instances of AgentLock for TLC. *)
EXTENDS AgentLock

CONSTANTS p1, p2, s1, s2

MCSessionOf == [p \in Prime |-> IF p = p2 THEN s2 ELSE s1]

\* Pane %0 belongs to session $0 (s1).  The pane of s2, session $1, is %2: the
\* session before it had two panes.  The listing turns $n into %n.
MCId == {"%0", "%1", "%2"}
MCIdOf == [p \in Prime |-> IF p = p2 THEN "%2" ELSE "%0"]
MCNames == [s \in Session |-> IF s = s2 THEN {"%1"} ELSE {"%0"}]
============================================================================
