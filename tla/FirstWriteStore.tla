-------------------------- MODULE FirstWriteStore --------------------------
(***************************************************************************)
(* What a table (storage/table.h) promises its callers, with no log, file  *)
(* position, index or cache: a map from bindings (key, timestamp, value)   *)
(* to the statement first put under them.  A bound statement is `certain`  *)
(* once the operating system has it; only then may a Get not fail.         *)
(***************************************************************************)
CONSTANTS
    Bindings,        \* what a Get asks for
    Statements,      \* what a Put stores
    BindingsOf(_),   \* the bindings a statement is stored under
    Missing          \* the content of a binding never put

VARIABLES
    store,           \* binding -> statement
    certain,         \* bindings a Get must find
    answer           \* the last call and its answer

vars == <<store, certain, answer>>

BoundBindings == {b \in Bindings : store[b] # Missing}

Init ==
    /\ store = [b \in Bindings |-> Missing]
    /\ certain = {}
    /\ answer = [op |-> "none", asked |-> <<>>, ok |-> TRUE, data |-> <<>>]

\* Statements are never forgotten, and more of them may become certain.
MoreCertain == certain \subseteq certain' /\ certain' \subseteq BoundBindings'

\* A put binds what is not bound yet; one that fails may still have done it.
Put(s, ok) ==
    /\ answer' = [op |-> "put", asked |-> <<s>>, ok |-> ok, data |-> <<>>]
    /\ \/ store' = [b \in Bindings |->
                      IF b \in BindingsOf(s) /\ store[b] = Missing
                      THEN s ELSE store[b]]
       \/ ~ok /\ store' = store
    /\ MoreCertain

\* A get answers with the statement bound, and fails only if it is not certain.
Get(b, ok) ==
    /\ answer'.op = "get" /\ answer'.asked = b /\ answer'.ok = ok
    /\ IF ok THEN b \in BoundBindings ELSE b \notin certain
    /\ answer'.data = IF ok THEN <<store[b]>> ELSE <<>>
    /\ UNCHANGED <<store, certain>>

\* After a successful sync every bound statement is certain.
Sync(ok) ==
    /\ answer' = [op |-> "sync", asked |-> <<>>, ok |-> ok, data |-> <<>>]
    /\ MoreCertain
    /\ ok => certain' = BoundBindings
    /\ UNCHANGED store

\* A batch read is by offset and says nothing about bindings.
Batch ==
    /\ answer'.op = "batch"
    /\ UNCHANGED <<store, certain>>

Next ==
    \/ \E s \in Statements, ok \in BOOLEAN : Put(s, ok)
    \/ \E ok \in BOOLEAN : Get(answer'.asked, ok)
    \/ \E ok \in BOOLEAN : Sync(ok)
    \/ Batch

Spec == Init /\ [][Next]_vars
=============================================================================
