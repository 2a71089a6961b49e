------------------------------ MODULE MCServices ------------------------------
(***************************************************************************)
(* Five parts that share no state, on small sets and side by side: in a    *)
(* behaviour one of them moves, and the others stay in an initial state.   *)
(***************************************************************************)
EXTENDS MCTransactionRetry, DictionaryProxy, TaskEndpoints, AccessControl

VARIABLES
  part,
  asked   \* of CacheKeys

Symmetry == RetrySymmetry \cup Permutations(Requests)

RoleSets ==
  LET all == {"read", "create", "update", "delete"}
  IN {{a} : a \in all} \cup {all \ {a} : a \in all}

(* Objects of up to two entries in either order, and arrays of one item.   *)
Keys == INSTANCE CacheKeys WITH Arguments <- {}

Simple ==
  {Keys!Undefined, Keys!JsNull, Keys!Atom("a"), Keys!Atom("2026"), Keys!Date("2026")}
Inner ==
  {Keys!Object(<<<<1, Keys!Atom("a")>>, <<2, Keys!JsNull>>>>),
   Keys!Object(<<<<2, Keys!JsNull>>, <<1, Keys!Atom("a")>>>>),
   Keys!Object(<<<<1, Keys!Atom("a")>>, <<2, Keys!Undefined>>>>)}
  \cup {Keys!Array(<<x>>) : x \in Simple}
Composed(V) ==
  {Keys!Object(<<>>)}
  \cup {Keys!Object(<<<<n, x>>>>) : n \in 1..2, x \in V}
  \cup {Keys!Object(<<<<n, x>>, <<3 - n, y>>>>) : n \in 1..2, x, y \in V}
  \cup {Keys!Array(<<x>>) : x \in V}
Arguments == Simple \cup Composed(Simple \cup Inner)

CachedCalls == INSTANCE CacheKeys

allVars == <<part, retryVars, proxyVars, asked, endpointVars, vars>>

ServicesInit ==
  /\ part \in {"retry", "dictionary", "keys", "endpoints", "access"}
  /\ RetryInit
  /\ part # "retry" => options = [maxRetries |-> 0, baseDelayMs |-> 0, maxDelayMs |-> 0]
  /\ ProxyInit
  /\ CachedCalls!Init
  /\ EndpointInit
  /\ Init
  /\ part # "access" => env = [production |-> FALSE, requested |-> FALSE]

ServicesNext ==
  \/ /\ part = "retry"
     /\ RetryNext
     /\ UNCHANGED <<part, proxyVars, asked, endpointVars, vars>>
  \/ /\ part = "dictionary"
     /\ ProxyNext
     /\ UNCHANGED <<part, retryVars, asked, endpointVars, vars>>
  \/ /\ part = "keys"
     /\ CachedCalls!Next
     /\ UNCHANGED <<part, retryVars, proxyVars, endpointVars, vars>>
  \/ /\ part = "endpoints"
     /\ EndpointNext
     /\ UNCHANGED <<part, retryVars, proxyVars, asked, vars>>
  \/ /\ part = "access"
     /\ Next
     /\ UNCHANGED <<part, retryVars, proxyVars, asked, endpointVars>>

ServicesSpec == ServicesInit /\ [][ServicesNext]_allVars

----------------------------------------------------------------------------
(* Calls share a cache key if and only if their arguments mean the same.   *)
KeysMeanArguments == CachedCalls!KeysMeanArguments
=============================================================================
