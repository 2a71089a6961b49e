------------------------- MODULE TaskEndpointsProofs -------------------------
(***************************************************************************)
(* Theorems about TaskEndpoints, for any roles: which calls reach the      *)
(* operations by each of the three ways, and with which arguments.         *)
(***************************************************************************)
EXTENDS TaskEndpoints, TLAPS

(* The two tables of permissions, the decorators' and the tools', agree,   *)
(* and both are what the operation does.                                   *)
LEMMA SamePermissions ==
  ASSUME NEW o \in Operations
  PROVE  Declared(o) = ToolAction(o)
  BY DEF Operations, Declared, OfHandler, OfClass, ToolAction

(* What was coerced does not conform to any schema; the rest is unchanged. *)
LEMMA CoercedNeverConforms ==
  ASSUME NEW o, NEW f, NEW x \in Values, Conforms(o, f, Coerced(x))
  PROVE  Coerced(x) = x
  BY DEF Conforms, Coerced, Texts

----------------------------------------------------------------------------
(* What each way requires of a call before the operation runs: the action  *)
(* that it performs, and the arguments as they were sent.                  *)
Permitted == ToolAction(call.op) \in call.may

Admitted ==
  IF call.via = "mcp"
  THEN \A f \in Fields(call.op) : Conforms(call.op, f, call.args[f])
  ELSE \A f \in Fields(call.op) : Valid(call.op, f, call.args[f])

Refused == \E f \in Fields(call.op) : ~Conforms(call.op, f, Coerced(call.args[f]))

Unstorable ==
  \/ call.op = "createTask" /\ ~call.exists
  \/ \E f \in Fields(call.op) : ~Storable(call.op, f, call.args[f])

(* How far a call has come, and what is known of it there.                 *)
Sent ==
  /\ call.via \in Vias
  /\ call.op \in Operations
  /\ call.args \in [Fields(call.op) -> Values]
  /\ stage = "answered" <=> answered # "none"
  /\ stage \in {"sent", "typed", "permitted", "checked"} => passed = call.args
  /\ stage = "typed" => call.via # "mcp"
  /\ stage = "permitted" => call.via # "mcp" /\ Permitted
  /\ stage = "checked" => call.via = "mcp" /\ Admitted
  /\ Reached => passed = call.args /\ Permitted /\ Admitted
  /\ call.via = "mcp" /\ answered = "invalid" => Refused
  /\ answered = "server_error" => Unstorable

EndpointInv == IF stage = "none" THEN answered = "none" ELSE Sent

LEMMA InvInit == EndpointInit => EndpointInv
  BY DEF EndpointInit, EndpointInv

(* Each step of a call knows what the one before it has established.       *)
LEMMA SendStep ==
  ASSUME EndpointInv,
         \E v \in Vias, o \in Operations, may \in RolePermissions, exists \in BOOLEAN :
           Send(v, o, may, exists)
  PROVE  EndpointInv'
<1>1. PICK v \in Vias, o \in Operations, may \in RolePermissions, exists \in BOOLEAN :
        Send(v, o, may, exists)
  OBVIOUS
<1>2. PICK args \in [Fields(o) -> Values] :
        /\ call' = [via |-> v, op |-> o, args |-> args, may |-> may, exists |-> exists]
        /\ passed' = args
  BY <1>1 DEF Send
<1>3. /\ call'.via = v /\ call'.op = o /\ call'.args = args
      /\ stage' = "sent" /\ answered' = "none"
  BY <1>1, <1>2 DEF Send, EndpointInv
<1> QED
  BY <1>2, <1>3 DEF EndpointInv, Sent, Reached

LEMMA TypeCheckStep == EndpointInv /\ TypeCheck => EndpointInv'
  BY DEF EndpointInv, TypeCheck, Goes, Answers, Sent, Reached, Permitted, Admitted,
         Refused, Unstorable

LEMMA GuardStep == EndpointInv /\ Guard => EndpointInv'
  BY SamePermissions
  DEF EndpointInv, Guard, Goes, Answers, Sent, Reached, Permitted, Admitted,
      Refused, Unstorable

LEMMA ValidateStep == EndpointInv /\ Validate => EndpointInv'
  BY DEF EndpointInv, Validate, Goes, Answers, Sent, Reached, Permitted, Admitted, Refused,
         Unstorable

LEMMA CallToolStep == EndpointInv /\ CallTool => EndpointInv'
<1> SUFFICES ASSUME EndpointInv, CallTool PROVE EndpointInv'
  OBVIOUS
<1>1. /\ stage = "sent" /\ call.via = "mcp" /\ call' = call
      /\ passed = call.args /\ Sent
  BY DEF EndpointInv, CallTool, Sent
<1>2. /\ call.args \in [Fields(call.op) -> Values]
      /\ passed' = [f \in Fields(call.op) |-> Coerced(call.args[f])]
  BY <1>1 DEF CallTool, Sent
<1>3. CASE \A f \in Fields(call.op) : Conforms(call.op, f, passed'[f])
  <2>1. \A f \in Fields(call.op) : passed'[f] = call.args[f]
    BY <1>2, <1>3, CoercedNeverConforms
  <2>2. passed' = call.args
    BY <1>2, <2>1
  <2>3. Admitted'
    BY <1>1, <1>3, <2>2 DEF Admitted
  <2>4. stage' = "checked" /\ answered' = answered
    BY <1>3 DEF CallTool, Goes
  <2> QED
    BY <1>1, <2>2, <2>3, <2>4 DEF EndpointInv, Sent, Reached
<1>4. CASE ~(\A f \in Fields(call.op) : Conforms(call.op, f, passed'[f]))
  <2>1. Refused'
    BY <1>1, <1>2, <1>4 DEF Refused
  <2>2. stage' = "answered" /\ answered' = "invalid"
    BY <1>4 DEF CallTool, Answers
  <2> QED
    BY <1>1, <2>1, <2>2 DEF EndpointInv, Sent, Reached
<1> QED
  BY <1>3, <1>4

LEMMA CheckStep == EndpointInv /\ CheckSystemPermission => EndpointInv'
  BY DEF EndpointInv, CheckSystemPermission, Goes, Answers, Sent, Reached, Permitted,
         Admitted, Refused, Unstorable

LEMMA ExecuteStep == EndpointInv /\ Execute => EndpointInv'
  BY DEF EndpointInv, Execute, Accepted, Answers, Sent, Reached, Permitted, Admitted,
         Refused, Unstorable

LEMMA InvStep == EndpointInv /\ [EndpointNext]_endpointVars => EndpointInv'
<1> SUFFICES ASSUME EndpointInv, [EndpointNext]_endpointVars PROVE EndpointInv'
  OBVIOUS
<1>1. CASE UNCHANGED endpointVars
  BY <1>1 DEF endpointVars, EndpointInv, Sent, Reached, Permitted, Admitted, Refused,
              Unstorable
<1> QED
  BY <1>1, SendStep, TypeCheckStep, GuardStep, ValidateStep, CallToolStep, CheckStep, ExecuteStep
  DEF EndpointNext, EndpointFinished

LEMMA InvHolds == EndpointSpec => []EndpointInv
  BY InvInit, InvStep, PTL DEF EndpointSpec

----------------------------------------------------------------------------
(* A call by REST, GraphQL or MCP reaches an operation only if its role is *)
(* permitted what the operation does: the decorators of the class and of   *)
(* its handlers say what the tools' own checks say.                        *)
THEOREM PermittedBeforeCalledHolds == EndpointSpec => []PermittedBeforeCalled
<1>1. EndpointInv => PermittedBeforeCalled
  BY DEF EndpointInv, Sent, Reached, Permitted, ToolAction, Operations,
         PermittedBeforeCalled
<1> QED
  BY <1>1, InvHolds, PTL

(* An argument that is let through arrives as it was sent, and coercion    *)
(* makes the tools refuse no text but the JSON of a container.             *)
THEOREM TextsArriveHolds == EndpointSpec => []TextsArrive
<1>1. ASSUME EndpointInv PROVE TextsArrive
  <2>1. Reached => passed = call.args
    BY <1>1 DEF EndpointInv, Sent, Reached
  <2>2. ASSUME call.via = "mcp", answered = "invalid"
        PROVE  \E f \in Fields(call.op) :
                 \/ call.args[f] \in {"container", "null", "number"}
                 \/ call.args[f] = "absent" /\ f \in Required(call.op)
    <3>1. Sent /\ Refused
      BY <1>1, <2>2 DEF EndpointInv, Sent
    <3>2. PICK f \in Fields(call.op) : ~Conforms(call.op, f, Coerced(call.args[f]))
      BY <3>1 DEF Refused
    <3>3. call.args[f] \in Values
      BY <3>1 DEF Sent
    <3> QED
      BY <3>2, <3>3 DEF Conforms, Coerced, Values, Texts
  <2> QED
    BY <2>1, <2>2 DEF TextsArrive
<1> QED
  BY <1>1, InvHolds, PTL

(* What the DTOs and the tools' schemas admit the database takes, except a *)
(* create by a caller without a row, a text with NUL, a title longer for   *)
(* the column than for the validator, the nulls of an update and, over     *)
(* MCP, a long title or an unknown status.                                 *)
THEOREM ServerErrorsExplainedHolds == EndpointSpec => []ServerErrorsExplained
<1>1. ASSUME EndpointInv, answered = "server_error",
             ~(call.op = "createTask" /\ ~call.exists)
      PROVE  \E f \in Fields(call.op) :
               \/ call.args[f] = "nul"
               \/ f = "title" /\ call.args[f] = "wide"
               \/ /\ call.via # "mcp" /\ call.op = "updateTask"
                  /\ f \in {"title", "status"} /\ call.args[f] = "null"
               \/ call.via = "mcp" /\ f = "title" /\ call.args[f] = "long"
               \/ call.via = "mcp" /\ f = "status" /\ call.args[f] \notin {"known", "absent"}
  <2>1. Sent /\ Admitted /\ Unstorable
    BY <1>1 DEF EndpointInv, Sent, Reached
  <2>2. PICK f \in Fields(call.op) : ~Storable(call.op, f, call.args[f])
    BY <1>1, <2>1 DEF Unstorable
  <2>3. CASE f = "title"
    BY <2>1, <2>2, <2>3 DEF Storable, Admitted, Conforms, Valid, Texts
  <2>4. CASE f = "status"
    BY <2>1, <2>2, <2>4
    DEF Storable, Admitted, Conforms, Valid, Texts, Sent, Operations, Fields
  <2>5. CASE f \notin {"title", "status"}
    BY <2>2, <2>5 DEF Storable
  <2> QED
    BY <2>3, <2>4, <2>5
<1> QED
  BY <1>1, InvHolds, PTL DEF ServerErrorsExplained
=============================================================================
