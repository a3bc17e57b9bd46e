------------------------------- MODULE ToolCall -------------------------------
(***************************************************************************)
(* One call of a rolled-up "<domain>_manage" tool, from the arguments the  *)
(* MCP client sends to the handler's keyword arguments: the middleware in  *)
(* the order create_server adds it, the tool's schema, and                 *)
(* dispatch_manage_op.  Clients write one and the same call in many ways:  *)
(* with keys beside "op" instead of in "params", with "params" or a nested *)
(* list as JSON text, with a wrapper argument of their own.                *)
(*                                                                         *)
(* A handler here takes three parameters that stand for the kinds of       *)
(* annotation the code tells apart: text (str, required), count (int) and  *)
(* items (list).                                                           *)
(***************************************************************************)
EXTENDS Integers

Keys     == {"text", "count", "items", "other"}
Accepted == {"text", "count", "items"}     \* "other" is not a parameter
Required == {"text"}

\* A value: what it is as JSON, and which one.  "listtext" is a string that
\* holds a JSON list, "brokentext" one that starts like JSON and is not.
Value(json, id) == [json |-> json, id |-> id]

Refused == [handler |-> "refused"]

NoArguments == [k \in {} |-> Value("null", 0)]

-----------------------------------------------------------------------------
(* Middleware.  A call is [op, form, nested, flat, wrapper]: form is what  *)
(* "params" is ("none", "object", "text" for JSON text of an object,       *)
(* "array", "broken" for other text), nested its keys, flat the keys       *)
(* beside it.                                                              *)

\* The keys of f, and those of g that f does not have.
Over(f, g) == [k \in DOMAIN f \cup DOMAIN g |-> IF k \in DOMAIN f THEN f[k] ELSE g[k]]

StripClientWrapperKwargs(c) == [c EXCEPT !.wrapper = FALSE]

ParseStringifiedParams(c) == IF c.form = "text" THEN [c EXCEPT !.form = "object"] ELSE c

\* Mutant: the flat keys are folded over the nested ones unseen.
FoldFlatManageParams_Overrides(c) ==
  IF DOMAIN c.flat = {} THEN c
  ELSE IF c.form \notin {"none", "object"} THEN Refused
       ELSE [c EXCEPT !.form = "object", !.nested = Over(c.flat, c.nested), !.flat = NoArguments]

\* Every duplicate is compared before anything is folded.
FoldFlatManageParams(c) ==
  IF DOMAIN c.flat = {} THEN c
  ELSE IF \/ c.form \notin {"none", "object"}
          \/ \E k \in DOMAIN c.flat \cap DOMAIN c.nested : c.flat[k] # c.nested[k]
       THEN Refused
       ELSE [c EXCEPT !.form = "object", !.nested = Over(c.nested, c.flat), !.flat = NoArguments]

-----------------------------------------------------------------------------
(* The schema and the dispatcher.                                          *)

\* The strict schema: a known op (HintOpTypoOnManage words the refusal of
\* another), an object or nothing as params, and nothing else.
FitsSchema(c, ops) ==
  /\ c.op \in ops
  /\ c.form \in {"none", "object"}
  /\ c.flat = NoArguments
  /\ ~c.wrapper

\* JSON text becomes a list where the handler wants one, and stays text where
\* it wants text.
Coerced(k, v) ==
  IF k = "items" /\ v.json = "listtext" THEN [v EXCEPT !.json = "list"] ELSE v

\* The pins on scalars.  A list is not one: what else stands there is left to
\* the handler, but for text that fails to decode.
Pinned(k, v) ==
  CASE k = "text"  -> v.json \in {"string", "listtext", "brokentext"}
    [] k = "count" -> v.json = "int"
    [] k = "items" -> v.json # "brokentext"
    [] OTHER       -> TRUE

\* The handler's signature: no unknown keyword, none missing.
Binds(arguments) == Required \subseteq DOMAIN arguments /\ DOMAIN arguments \subseteq Accepted

DispatchManageOp(c, handler) ==
  LET arguments == [k \in DOMAIN c.nested |-> Coerced(k, c.nested[k])]
  IN  IF (\A k \in DOMAIN arguments : Pinned(k, arguments[k])) /\ Binds(arguments)
      THEN [handler |-> handler, arguments |-> arguments]
      ELSE Refused

Deliver(c, handlers) ==
  LET folded == FoldFlatManageParams(ParseStringifiedParams(StripClientWrapperKwargs(c)))
  IN  IF folded = Refused \/ ~FitsSchema(folded, DOMAIN handlers) THEN Refused
      ELSE DispatchManageOp(folded, handlers[folded.op])

-----------------------------------------------------------------------------
(* What a client writes, and what it means by it.                          *)

\* Some of the keys, each with one of its values.
Written ==
  LET texts  == {Value("string", 1), Value("string", 2), Value("listtext", 1)}
      counts == {Value("int", 1), Value("string", 1)}
      lists  == {Value("list", 1), Value("listtext", 1), Value("brokentext", 1)}
      of(k)  == CASE k = "text" -> texts [] k = "count" -> counts
                  [] k = "items" -> lists [] OTHER -> {Value("int", 1)}
  IN  UNION {{f \in [ks -> texts \cup counts \cup lists] : \A k \in ks : f[k] \in of(k)} :
               ks \in SUBSET Keys}

Means(k, v) == Coerced(k, v)

\* A call a person would take to be a right one, however it is written.
Sensible(c, handlers) ==
  LET keys == DOMAIN c.nested \cup DOMAIN c.flat
      held == {<<k, c.nested[k]>> : k \in DOMAIN c.nested}
              \cup {<<k, c.flat[k]>> : k \in DOMAIN c.flat}
  IN  /\ c.op \in DOMAIN handlers
      /\ c.form \in {"none", "object", "text"}
      /\ Required \subseteq keys /\ keys \subseteq Accepted
      /\ \A p, q \in held : p[1] = q[1] => p = q
      /\ \A p \in held : Pinned(p[1], p[2])

\* What arrived is all of what was written and nothing else.
Intact(c, handlers) ==
  LET got == Deliver(c, handlers)
  IN  got # Refused =>
        /\ got.handler = handlers[c.op]
        /\ DOMAIN got.arguments = DOMAIN c.nested \cup DOMAIN c.flat
        /\ \A k \in DOMAIN c.nested : got.arguments[k] = Means(k, c.nested[k])
        /\ \A k \in DOMAIN c.flat : got.arguments[k] = Means(k, c.flat[k])

=============================================================================
