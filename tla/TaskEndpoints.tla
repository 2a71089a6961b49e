---------------------------- MODULE TaskEndpoints ----------------------------
(***************************************************************************)
(* The three ways to the operations on tasks: TaskController (REST),       *)
(* TaskResolver (GraphQL) and TaskTools (MCP), from the arguments a client *)
(* sends to the call of TaskApiService and the answer of the database.     *)
(*                                                                         *)
(* REST and GraphQL: the permission guard, then the validation of the DTO; *)
(* GraphQL checks the types of the arguments before either.                *)
(* MCP: the body is coerced, the schema of the tool is checked by the SDK, *)
(* then the tool checks the permission.  Authentication is in              *)
(* AccessControl, concurrent operations are in TaskCache.                  *)
(***************************************************************************)
CONSTANT RolePermissions   \* the sets of actions that the roles are permitted

Vias == {"rest", "graphql", "mcp"}
Operations == {"getTasks", "getTask", "createTask", "updateTask", "deleteTask"}

Fields(o) ==
  CASE o = "getTasks" -> {"status"}
    [] o = "createTask" -> {"title", "description"}
    [] o = "updateTask" -> {"taskId", "title", "description", "status"}
    [] o \in {"getTask", "deleteTask"} -> {"taskId"}

(* What an argument may be, as far as it is told apart: left out, null, a  *)
(* number, the JSON text of a container or of something else, a text that  *)
(* begins like a container and is none, a status, the empty text, one of   *)
(* more than 255 characters, one that @MaxLength counts as 255 or less and *)
(* the column as more (variation selectors), one with the character NUL,   *)
(* which PostgreSQL cannot hold, any other text.                           *)
Texts ==
  {"container", "numeral", "brace", "known", "empty", "long", "wide", "nul", "text"}
Values == Texts \cup {"absent", "null", "number"}

(* What a client can send, less what makes no difference to the argument.  *)
Sendable(v, o, f) ==
  CASE v = "rest" /\ f = "taskId" -> {"text", "nul"}
    [] v # "rest" /\ f = "taskId" -> {"text", "nul", "container", "absent"}
    [] v = "rest" /\ o = "getTasks" -> Texts \cup {"absent"}
    [] f = "description" -> {"text", "nul", "container", "absent", "null"}
    [] f = "title" -> Values \ {"known"}
    [] OTHER -> Values \ {"long", "wide"}

Fresh == [via |-> "none"]

VARIABLES
  call,     \* the call: via, op, args as sent, may: the actions permitted to
            \* the caller's role, exists: whether there is the row that
            \* the operation needs, the task's or for a create the caller's
  stage,    \* "none", "sent", "typed", "permitted", "checked", "ready",
            \* or "answered"
  passed,   \* the arguments, as the adapter has them
  answered  \* "none", "ok", "forbidden", "invalid", "not_found", "server_error"

endpointVars == <<call, stage, passed, answered>>

EndpointInit ==
  /\ call = Fresh
  /\ stage = "none"
  /\ passed = Fresh
  /\ answered = "none"

Send(v, o, may, exists) ==
  /\ stage = "none"
  /\ \E args \in [Fields(o) -> Values] :
       /\ \A f \in Fields(o) : args[f] \in Sendable(v, o, f)
       /\ call' = [via |-> v, op |-> o, args |-> args, may |-> may, exists |-> exists]
       /\ passed' = args
  /\ stage' = "sent"
  /\ UNCHANGED answered

Goes(s) == stage' = s /\ UNCHANGED answered
Answers(a) == stage' = "answered" /\ answered' = a

----------------------------------------------------------------------------
(* The types of the GraphQL schema.                                        *)
Typed(o, f, x) ==
  \/ x \in (IF f = "status" THEN {"known"} ELSE Texts)
  \/ x \in {"absent", "null"} /\ f # "taskId" /\ ~(o = "createTask" /\ f = "title")

(* A request that is not of the schema is refused before the resolver, and *)
(* with it before the guards.                                              *)
TypeCheck ==
  /\ stage = "sent" /\ call.via = "graphql"
  /\ IF \A f \in Fields(call.op) : Typed(call.op, f, passed[f])
     THEN Goes("typed") ELSE Answers("invalid")
  /\ UNCHANGED <<call, passed>>

(* @PermissionParams of the class, and of the handlers that have theirs.   *)
OfClass == "read"
OfHandler == [createTask |-> "create", updateTask |-> "update", deleteTask |-> "delete"]

(* Mutant: getAllAndOverride looks at the class first.                     *)
DeclaredByClass(o) == OfClass

Declared(o) == IF o \in DOMAIN OfHandler THEN OfHandler[o] ELSE OfClass

(* HttpPermissionGuard, GqlPermissionGuard.                                *)
Guard ==
  /\ (stage = "sent" /\ call.via = "rest") \/ stage = "typed"
  /\ IF Declared(call.op) \in call.may THEN Goes("permitted") ELSE Answers("forbidden")
  /\ UNCHANGED <<call, passed>>

(* Mutant: any text is a status.                                           *)
ValidAnyStatus(o, f, x) ==
  CASE f = "taskId" -> x \in Texts
    [] f = "title" -> x \in (Texts \ {"long"}) \cup (IF o = "updateTask" THEN {"absent", "null"} ELSE {})
    [] f \in {"description", "status"} -> x \in Texts \cup {"absent", "null"}

(* ValidationPipe, by the decorators of the DTOs and inputs: @IsOptional   *)
(* admits null as well as an argument left out.                            *)
Valid(o, f, x) ==
  CASE f = "taskId" -> x \in Texts
    [] f = "title" -> x \in (Texts \ {"long"}) \cup (IF o = "updateTask" THEN {"absent", "null"} ELSE {})
    [] f = "description" -> x \in Texts \cup {"absent", "null"}
    [] f = "status" -> x \in {"known", "absent", "null"}

Validate ==
  /\ stage = "permitted"
  /\ IF \A f \in Fields(call.op) : Valid(call.op, f, passed[f])
     THEN Goes("ready") ELSE Answers("invalid")
  /\ UNCHANGED <<call, passed>>

----------------------------------------------------------------------------
(* Mutant: whatever parses is coerced.                                     *)
CoercedJson(x) ==
  CASE x = "container" -> "object" [] x = "numeral" -> "number" [] OTHER -> x

(* coerceStringifiedArgs: only what looks like an object or an array.      *)
Coerced(x) == IF x = "container" THEN "object" ELSE x

Required(o) == Fields(o) \ (IF o = "updateTask" THEN Fields(o) \ {"taskId"} ELSE {})

(* z.string(), with .optional() for the new values of update_task only.    *)
Conforms(o, f, x) == x \in Texts \/ (x = "absent" /\ f \notin Required(o))

CallTool ==
  /\ stage = "sent" /\ call.via = "mcp"
  /\ passed' = [f \in Fields(call.op) |-> Coerced(passed[f])]
  /\ IF \A f \in Fields(call.op) : Conforms(call.op, f, passed'[f])
     THEN Goes("checked") ELSE Answers("invalid")
  /\ UNCHANGED call

ToolAction(o) ==
  CASE o \in {"getTasks", "getTask"} -> "read"
    [] o = "createTask" -> "create"
    [] o = "updateTask" -> "update"
    [] o = "deleteTask" -> "delete"

CheckSystemPermission ==
  /\ stage = "checked"
  /\ IF ToolAction(call.op) \in call.may THEN Goes("ready") ELSE Answers("forbidden")
  /\ UNCHANGED <<call, passed>>

----------------------------------------------------------------------------
(* The columns: title is VARCHAR(255) NOT NULL and status an enum.  The    *)
(* query takes any false value for no filter; the update leaves out only   *)
(* what is undefined; no text with NUL goes to the database.               *)
Storable(o, f, x) ==
  CASE f = "title" -> x \notin {"null", "long", "wide", "nul"}
    [] f = "status" -> x \in {"known", "absent"} \cup (IF o = "getTasks" THEN {"null", "empty"} ELSE {})
    [] OTHER -> x # "nul"

(* A get, update or delete looks for the task first.                       *)
NotFound ==
  /\ call.op \in {"getTask", "updateTask", "deleteTask"}
  /\ Storable(call.op, "taskId", passed["taskId"])
  /\ ~call.exists

(* Task.userId references the user.                                        *)
Accepted ==
  /\ call.op = "createTask" => call.exists
  /\ \A f \in Fields(call.op) : Storable(call.op, f, passed[f])

(* TaskApiService, its handler and the database.                           *)
Execute ==
  /\ stage = "ready"
  /\ Answers(IF NotFound THEN "not_found" ELSE IF Accepted THEN "ok" ELSE "server_error")
  /\ UNCHANGED <<call, passed>>

EndpointFinished == stage = "answered" /\ UNCHANGED endpointVars

EndpointNext ==
  \/ \E v \in Vias, o \in Operations, may \in RolePermissions, exists \in BOOLEAN :
       Send(v, o, may, exists)
  \/ TypeCheck \/ Guard \/ Validate
  \/ CallTool \/ CheckSystemPermission
  \/ Execute
  \/ EndpointFinished

EndpointSpec == EndpointInit /\ [][EndpointNext]_endpointVars

----------------------------------------------------------------------------
Reached == stage = "ready" \/ answered \in {"ok", "not_found", "server_error"}

(* By whichever way it comes, a call reaches TaskApiService only when the  *)
(* role is permitted the action that the operation performs: the three     *)
(* adapters declare it in three ways, two of them with an override.        *)
PermittedBeforeCalled ==
  Reached =>
    CASE call.op \in {"getTask", "getTasks"} -> "read" \in call.may
      [] call.op = "createTask" -> "create" \in call.may
      [] call.op = "updateTask" -> "update" \in call.may
      [] call.op = "deleteTask" -> "delete" \in call.may

(* No adapter changes an argument that it lets through, and the coercion   *)
(* costs a text only if it is the JSON of a container: a title of digits,  *)
(* or with a brace, arrives.                                               *)
TextsArrive ==
  /\ Reached => passed = call.args
  /\ call.via = "mcp" /\ answered = "invalid" =>
       \E f \in Fields(call.op) : \/ call.args[f] \in {"container", "null", "number"}
                                  \/ call.args[f] = "absent" /\ f \in Required(call.op)

(* What the adapters admit the database takes, but for these: a create by  *)
(* a caller who has no row (NO_AUTH, or a user removed since); a text with *)
(* NUL; a title that is longer for the column than for @MaxLength; null    *)
(* for the title or the status of an update, which @IsOptional admits; and *)
(* by MCP a title that is too long or a status that is none.               *)
ServerErrorsExplained ==
  answered = "server_error" =>
    \/ call.op = "createTask" /\ ~call.exists
    \/ \E f \in Fields(call.op) :
         \/ call.args[f] = "nul"
         \/ f = "title" /\ call.args[f] = "wide"
         \/ /\ call.via # "mcp" /\ call.op = "updateTask"
            /\ f \in {"title", "status"} /\ call.args[f] = "null"
         \/ call.via = "mcp" /\ f = "title" /\ call.args[f] = "long"
         \/ call.via = "mcp" /\ f = "status" /\ call.args[f] \notin {"known", "absent"}
=============================================================================
