---------------------------- MODULE ReportGenerate ----------------------------
(***************************************************************************)
(* ReportDesign.generate (src/smc/administration/reports.py): the request  *)
(* it builds from its keyword arguments before Task.execute(self,          *)
(* "generate", ...).  Python dicts are TLA+ functions from key names; the  *)
(* caller's own **kw may already hold "params".  Each step is one call of  *)
(* generate with arguments drawn from small sets that contain None, falsy  *)
(* and ordinary values.  A params dict in **kw is the caller's own object: *)
(* setdefault returns it and update() changes it in place, so a caller     *)
(* that passes the same dict again (ReuseParams) passes what the earlier   *)
(* calls left in it.                                                       *)
(***************************************************************************)
EXTENDS Integers, Sequences, Functions, TLC

CONSTANTS
  None,        \* Python None
  TimeValues,  \* values passed as start_time, end_time, launch_time
  Durations,   \* values passed as overriding_duration
  Senders,     \* elements that may be passed in senders
  CallerKw,    \* the **kw dictionaries a caller may pass
  ReuseParams  \* TRUE: the caller may pass its params dict to a later call

ASSUME None \notin Int /\ ReuseParams \in BOOLEAN

EmptyDict == <<>>

\* Python truthiness of an int-or-None argument.
Truthy(v) == v # None /\ v # 0

\* element_resolver: each element becomes its href.
ElementResolver(seq) == [i \in DOMAIN seq |-> <<"href", seq[i]>>]

\* Mutant: kw.update(d), the entries put at the top level of **kw.
SetdefaultUpdateFlat(kw, key, cond, d) == IF cond THEN d @@ kw ELSE kw

\* Mutant: kw[key] = d, replacing what the dictionary held.
SetdefaultUpdateReplace(kw, key, cond, d) == IF cond THEN (key :> d) @@ kw ELSE kw

\* kw.setdefault(key, {}).update(d), done only when cond holds.
SetdefaultUpdate(kw, key, cond, d) ==
  IF cond
    THEN LET old == IF key \in DOMAIN kw THEN kw[key] ELSE EmptyDict
         IN  (key :> (d @@ old)) @@ kw
    ELSE kw

\* The keyword arguments generate hands to Task.execute besides timeout and
\* wait_for_finish.
GenerateKw(a) ==
  LET k1 == SetdefaultUpdate(a.kw, "params",
              Truthy(a.start_time) /\ Truthy(a.end_time),
              ("start_time" :> a.start_time) @@ ("end_time" :> a.end_time))
      k2 == SetdefaultUpdate(k1, "params",
              Truthy(a.launch_time) /\ Truthy(a.overriding_duration),
              ("launch_time" :> a.launch_time)
                @@ ("overriding_duration" :> a.overriding_duration)
                @@ ("use_elasticsearch" :> a.use_elasticsearch))
  IN  SetdefaultUpdate(k2, "json", a.senders # <<>>,
                       "senders" :> ElementResolver(a.senders))

Params(r) == IF "params" \in DOMAIN r THEN r["params"] ELSE EmptyDict

SenderLists == {<<>>} \cup {<<s>> : s \in Senders}

Args ==
  [start_time : TimeValues, end_time : TimeValues, launch_time : TimeValues,
   overriding_duration : Durations, use_elasticsearch : BOOLEAN,
   senders : SenderLists, kw : CallerKw]

VARIABLES
  args,     \* the arguments of the last generate call
  request,  \* the keyword arguments it passed to Task.execute
  held      \* the params dict the caller passed last, as generate left it

vars == <<args, request, held>>

\* Keys a params dict can hold: the caller's own and those generate adds.
ParamKeys ==
  {"start_time", "end_time", "launch_time", "overriding_duration", "use_elasticsearch"}
    \cup UNION {DOMAIN Params(k) : k \in CallerKw}

TypeOK ==
  /\ args = None
     \/ /\ [args EXCEPT !.kw = CHOOSE k \in CallerKw : TRUE] \in Args
        /\ \/ args.kw \in CallerKw
           \/ ReuseParams /\ DOMAIN args.kw = {"params"}
  /\ request = None \/ DOMAIN request \subseteq {"params", "json"}
  /\ held = None \/ DOMAIN held \subseteq ParamKeys

Init == args = None /\ request = None /\ held = None

\* One call of ReportDesign.generate(...); a params dict the caller passed
\* is the object kw["params"] that setdefault(...).update(...) changed.
Generate(a) ==
  /\ args' = a
  /\ request' = GenerateKw(a)
  /\ held' = IF "params" \in DOMAIN a.kw THEN request'["params"] ELSE held

\* The caller passes the params dict it passed before: generate(..., params=p).
Reused(a) == [a EXCEPT !.kw = "params" :> held]

Next ==
  \E a \in Args :
    \/ Generate(a)
    \/ ReuseParams /\ held # None /\ Generate(Reused(a))

Spec == Init /\ [][Next]_vars

(***************************************************************************)
(* Reference, spec.md 4.1: each filter pair is sent when both of its       *)
(* values are supplied and not otherwise; senders, when given, are sent as *)
(* their references; use_elasticsearch is one of the recognised options.   *)
(***************************************************************************)
Supplied(v) == v # None

FilterKeys == {"start_time", "end_time", "launch_time", "overriding_duration"}

RefFilters(a) ==
  (IF Supplied(a.start_time) /\ Supplied(a.end_time)
     THEN ("start_time" :> a.start_time) @@ ("end_time" :> a.end_time)
     ELSE EmptyDict)
  @@
  (IF Supplied(a.launch_time) /\ Supplied(a.overriding_duration)
     THEN ("launch_time" :> a.launch_time)
            @@ ("overriding_duration" :> a.overriding_duration)
     ELSE EmptyDict)

Json(r) == IF "json" \in DOMAIN r THEN r["json"] ELSE EmptyDict

Sent(r, k) == k \in DOMAIN Params(r)

\* The filters generate sends are exactly the pairs the caller supplied, with
\* their values, over whatever params the caller's dict held; senders
\* reach the request as references exactly when some are given.
RequestMatchesReference ==
  args # None =>
    /\ Restrict(Params(request), FilterKeys \cap DOMAIN Params(request))
         = RefFilters(args) @@ Restrict(Params(args.kw), FilterKeys \cap DOMAIN Params(args.kw))
    /\ \A k \in DOMAIN Params(args.kw) \ (FilterKeys \cup {"use_elasticsearch"}) :
         Sent(request, k) /\ Params(request)[k] = Params(args.kw)[k]
    /\ ("senders" \in DOMAIN Json(request)) = (args.senders # <<>>)
    /\ "senders" \in DOMAIN Json(request) =>
         Json(request)["senders"] = ElementResolver(args.senders)

\* spec.md 4.1 and 3: each call's filters come from its own arguments, and
\* nothing is changed in place.  A filter generate sends was supplied to
\* this call, not left in the caller's params dict by an earlier call.
FiltersOnlyFromArguments ==
  args # None =>
    \A k \in FilterKeys : Sent(request, k) => Supplied(args[k])

\* A caller asking for use_elasticsearch=True gets it in the request.
UseElasticsearchHonoured ==
  args # None /\ args.use_elasticsearch =>
    Sent(request, "use_elasticsearch") /\ Params(request)["use_elasticsearch"]

=============================================================================
