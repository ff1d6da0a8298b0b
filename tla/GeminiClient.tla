---------------------------- MODULE GeminiClient ----------------------------
(***************************************************************************)
(* The SDK client that the calls of one GeminiProvider share.  The calls   *)
(* run in worker threads and create it lazily, without a lock: a document  *)
(* call looks the pair (_client, _sdk_types) up twice, first for the types *)
(* and then for the client, a text call once.                              *)
(*                                                                         *)
(* One action per read or write of an attribute: the interpreter may       *)
(* switch threads between any two of them.                                 *)
(***************************************************************************)
EXTENDS Naturals

CONSTANTS
    Worker,  \* threads of the default executor
    Null

Label == {"idle", "check_client", "check_types", "import", "build", "store_client",
          "store_types", "return", "call"}

\* What a call wants of its next lookup.
Want == {"types", "client"}

\* What a lookup returns.
Pair == [client : Worker \cup {Null}, types : BOOLEAN]

ASSUME NullAssumption == Null \notin Worker \cup Pair

VARIABLES
    client,     \* self._client, named by the thread that built it
    sdk_types,  \* is self._sdk_types set?
    pc,         \* where each thread is
    want,       \* what the thread's lookup is for
    got,        \* the pair its call was given by its last lookup
    built       \* how many clients each thread has built

vars == <<client, sdk_types, pc, want, got, built>>

Goto(w, l) == pc' = [pc EXCEPT ![w] = l]

Init ==
    /\ client    = Null
    /\ sdk_types = FALSE
    /\ pc        = [w \in Worker |-> "idle"]
    /\ want      = [w \in Worker |-> "client"]
    /\ got       = [w \in Worker |-> Null]
    /\ built     = [w \in Worker |-> 0]

-----------------------------------------------------------------------------
(* Mistakes in the actions below; the runs show that each is caught.       *)

\* The lookup is satisfied as soon as the client is there.
CheckClientOnly(w) ==
    /\ pc[w] = "check_client"
    /\ Goto(w, IF client = Null THEN "import" ELSE "return")
    /\ UNCHANGED <<client, sdk_types, want, got, built>>

\* The types are used but not kept.
StoreTypesForgotten(w) ==
    /\ pc[w] = "store_types"
    /\ Goto(w, "return")
    /\ UNCHANGED <<client, sdk_types, want, got, built>>

\* The lookup returns the client alone.
ReturnClientOnly(w) ==
    /\ pc[w] = "return"
    /\ got' = [got EXCEPT ![w] = client]
    /\ Goto(w, "call")
    /\ UNCHANGED <<client, sdk_types, want, built>>

\* A failed request resets the client, for the next call to build another.
CallEndsResetting(w) ==
    /\ pc[w] = "call"
    /\ Goto(w, "idle")
    /\ client' \in {client, Null}
    /\ got' = [got EXCEPT ![w] = Null]
    /\ UNCHANGED <<sdk_types, want, built>>

-----------------------------------------------------------------------------
(* The calls.                                                              *)

DocumentCall(w) ==
    /\ pc[w] = "idle"
    /\ want' = [want EXCEPT ![w] = "types"]
    /\ Goto(w, "check_client")
    /\ UNCHANGED <<client, sdk_types, got, built>>

TextCall(w) ==
    /\ pc[w] = "idle"
    /\ want' = [want EXCEPT ![w] = "client"]
    /\ Goto(w, "check_client")
    /\ UNCHANGED <<client, sdk_types, got, built>>

\* if self._client is not None and self._sdk_types is not None
CheckClient(w) ==
    /\ pc[w] = "check_client"
    /\ Goto(w, IF client = Null THEN "import" ELSE "check_types")
    /\ UNCHANGED <<client, sdk_types, want, got, built>>

CheckTypes(w) ==
    /\ pc[w] = "check_types"
    /\ Goto(w, IF sdk_types THEN "return" ELSE "import")
    /\ UNCHANGED <<client, sdk_types, want, got, built>>

Import(w) ==
    /\ pc[w] = "import"
    /\ Goto(w, "build")
    /\ UNCHANGED <<client, sdk_types, want, got, built>>

Build(w) ==
    /\ pc[w] = "build"
    /\ built' = [built EXCEPT ![w] = @ + 1]
    /\ Goto(w, "store_client")
    /\ UNCHANGED <<client, sdk_types, want, got>>

\* The package is missing (ProviderClientUnavailableError), or genai.Client
\* refuses the key: the call ends and nothing is kept.
LookupRaises(w) ==
    /\ pc[w] \in {"import", "build"}
    /\ Goto(w, "idle")
    /\ got' = [got EXCEPT ![w] = Null]
    /\ UNCHANGED <<client, sdk_types, want, built>>

StoreClient(w) ==
    /\ pc[w] = "store_client"
    /\ client' = w
    /\ Goto(w, "store_types")
    /\ UNCHANGED <<sdk_types, want, got, built>>

StoreTypes(w) ==
    /\ pc[w] = "store_types"
    /\ sdk_types' = TRUE
    /\ Goto(w, "return")
    /\ UNCHANGED <<client, want, got, built>>

\* Both return statements read the attributes again: the client that is
\* returned may be one that another thread has stored since the check.
Return(w) ==
    /\ pc[w] = "return"
    /\ got' = [got EXCEPT ![w] = [client |-> client, types |-> sdk_types]]
    /\ \/ /\ want[w] = "types"
          /\ want' = [want EXCEPT ![w] = "client"]
          /\ Goto(w, "check_client")
       \/ /\ want[w] = "client"
          /\ Goto(w, "call")
          /\ UNCHANGED want
    /\ UNCHANGED <<client, sdk_types, built>>

\* generate_content returns or raises; the thread takes another call.
CallEnds(w) ==
    /\ pc[w] = "call"
    /\ Goto(w, "idle")
    /\ got' = [got EXCEPT ![w] = Null]
    /\ UNCHANGED <<client, sdk_types, want, built>>

Step(w) == \/ DocumentCall(w) \/ TextCall(w)
           \/ CheckClient(w) \/ CheckTypes(w)
           \/ Import(w) \/ Build(w) \/ LookupRaises(w)
           \/ StoreClient(w) \/ StoreTypes(w)
           \/ Return(w) \/ CallEnds(w)

Next == \E w \in Worker : Step(w)
Spec == Init /\ [][Next]_vars

-----------------------------------------------------------------------------
(* Properties.                                                             *)

\* Every variable stays in its domain.
TypeOK ==
    /\ client    \in Worker \cup {Null}
    /\ sdk_types \in BOOLEAN
    /\ pc        \in [Worker -> Label]
    /\ want      \in [Worker -> Want]
    /\ got       \in [Worker -> Pair \cup {Null}]
    /\ built     \in [Worker -> Nat]

\* Whatever a lookup returns is complete: no thread is given a client without
\* the types or the types without a client, although the two are stored one
\* after the other and read again after the check.
PairIsComplete ==
    \A w \in Worker : got[w] # Null => got[w].client # Null /\ got[w].types

\* The race costs at most one client per thread, however many calls a thread
\* makes: once a thread has stored the pair it never builds again.
OneClientPerWorker == \A w \in Worker : built[w] <= 1

\* Why: the types are stored after a client, neither is ever unset, and a thread
\* that has stored both cannot find one of them missing again.
ThreadOK(w) ==
    /\ pc[w] \in {"check_types", "store_types"} => client # Null
    /\ pc[w] = "return" => client # Null /\ sdk_types
    /\ built[w] <= 1
    /\ pc[w] \in {"import", "build"} => built[w] = 0
    /\ built[w] = 1 /\ pc[w] \notin {"store_client", "store_types"} => sdk_types

\* The inductive invariant of the proofs.
IInv ==
    /\ TypeOK
    /\ PairIsComplete
    /\ sdk_types => client # Null
    /\ \A w \in Worker : ThreadOK(w)
=============================================================================
