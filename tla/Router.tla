------------------------------- MODULE Router -------------------------------
(* Which subscription route an agent run may use.                            *)
(*   rein-router/runtime.mjs   the hooks before model resolution, before an  *)
(*                             attempt of a run and before a tool call; the  *)
(*                             settlement of a run                           *)
(*   rein-router/policy.mjs    the catalog and the choice of a route         *)
(*   slack-development.mjs     who is a developer: a member of the private   *)
(*                             channel, then a role of the foundation        *)
(* The hooks await other services; the host gives up on a hook that takes    *)
(* too long and goes on while it still runs, so results come late, and a     *)
(* resolution may be repeated by the same or another requester of the run.   *)
EXTENDS ManagedGateway, Sequences, SequencesExt

CONSTANTS
  Runs, Routes,
  RouteOf,        \* [Routes -> [access, effort, billing, verified, model]]: "all" | "admin" |
                  \* "developer"; "low" (or off) | "medium" | "high"; "subscription" |
                  \* "coding-plan" | "pay"; whether its billing was verified; the upstream model
  PaidUsage,      \* whether paid usage is allowed and the gateway not for subscriptions only
  Catalog,        \* the routes in the order of the configuration
  DefaultRoute, FallbackRoutes,
  Requesters,
  AdminSenders,   \* requesters the configuration lists as administrators
  DevAgents,      \* requesters whose agent is a development agent
  DevChannel,     \* those of them that write in its channel, by themselves
  RunLimit,       \* entries the router keeps, 4096 in the code
  AutoModel,      \* the model id that asks for a choice
  Home,           \* the host process of the router
  Desks           \* what may meet in one behaviour: the gateway's [mode], the [runs],
                  \* [people] with their [rights], the [models] runs ask for, the
                  \* [outcomes] of decisions, and bounds

Rights == {"admin", "member", "role"}

Access(x) == RouteOf[x].access
Restricted(x) == Access(x) # "all"
AccessAllowed(x, admin, developer) ==
  CASE Access(x) = "admin" -> admin [] Access(x) = "developer" -> developer [] OTHER -> TRUE

Plan(x) == RouteOf[x].billing = "coding-plan"
Affordable(x) == RouteOf[x].verified /\ (RouteOf[x].billing = "pay" => PaidUsage)

\* Another name of a reserved route's upstream model offers no less restrictive path.
SameModelSameAccess ==
  \A x, y \in Routes : RouteOf[x].model = RouteOf[y].model /\ Restricted(x) => Access(x) = Access(y)

\* What an enabled configuration has to be.
ValidRouterConfig ==
  /\ Catalog # <<>> /\ IsInjective(Catalog) /\ \A x \in ToSet(Catalog) : Affordable(x)
  /\ DefaultRoute \in ToSet(Catalog) /\ ~Restricted(DefaultRoute) /\ SameModelSameAccess
  /\ ToSet(FallbackRoutes) \subseteq ToSet(Catalog) /\ IsInjective(FallbackRoutes)

\* The configuration as it is validated, and what the start of the plugin asserts of it.
ASSUME CatalogAssumption ==
  /\ ValidRouterConfig /\ {Catalog, FallbackRoutes} \subseteq Seq(Routes) /\ ToSet(Catalog) = Routes
  /\ ~Plan(DefaultRoute) /\ (AdminSenders # {} => \E x \in Routes : RouteOf[x].effort = "high")
  /\ DevChannel \subseteq DevAgents /\ DevAgents \subseteq Requesters /\ AutoModel \notin Routes

VARIABLES
  desk,
  rights,    \* [Requesters -> SUBSET Rights], as the other services would tell now
  asked,     \* [Runs -> the model id the session asks for]
  entry,     \* [Runs -> the router's entry of the run, or None]
  over,      \* runs whose execution is settled
  hooks,     \* the pending calls of beforeModelResolve
  toolCall,  \* [Runs -> the pending call of beforeToolCall, or None]
  used,      \* resolutions, attempts, tool calls and changes so far
  truth,     \* history: [Runs -> the resolution of the run that was begun last]
  passes,    \* history: [Runs -> the attempts that passed, with what was true then]
  allowed    \* history: what was true during each tool call that was allowed

routerVars == <<desk, rights, asked, entry, over, hooks, toolCall, used, truth, passes, allowed>>
vars == <<gatewayVars, routerVars>>

\* "seen" are the rights its requester had at any moment of it, "verdict" the answers
\* it got; of the whole run: the routes chosen so far, whether a resolution found it
\* to be coding, and whether one was refused for want of room.
NoTruth == [serial |-> 0, by |-> None, seen |-> {}, verdict |-> None,
            chosen |-> {}, coding |-> FALSE, refused |-> FALSE]

Init ==
  /\ GatewayInit
  /\ desk \in Desks /\ rights = desk.rights
  /\ asked \in [desk.runs -> desk.models]
  /\ entry = [r \in Runs |-> None] /\ over = {} /\ hooks = {} /\ toolCall = [r \in Runs |-> None]
  /\ used = [resolve |-> 0, attempt |-> 0, tool |-> 0, change |-> 0]
  /\ truth = [r \in Runs |-> NoTruth] /\ passes = [r \in Runs |-> <<>>] /\ allowed = {}

Kept == {r \in Runs : entry[r] # None}
GatewayReady == desk.mode = "service" => BridgeReady(Home)

-----------------------------------------------------------------------------
(* The entry of a run                                                        *)

Blank(model) ==
  [id |-> 0, manual |-> model # AutoModel, requested |-> None, requester |-> None,
   admin |-> FALSE, developer |-> FALSE, restrictedEligible |-> FALSE, codingEligible |-> FALSE,
   gatewayUnavailable |-> FALSE, lastRoute |-> None, fallbackCursor |-> 0]

\* markRun: a new object each time, with what the old one held; a result that is
\* still to be written to the old one is lost. Its identity is a number.
Marked(r, model) ==
  [(IF r \in Kept THEN entry[r] ELSE Blank(model)) EXCEPT
     !.id = used.resolve + used.attempt + 1,
     !.requested = IF @ = None /\ model # AutoModel THEN model ELSE @]

Overloaded(r) == r \notin Kept /\ Cardinality(Kept) >= RunLimit

BegunKeeping(r, q) ==
  [Marked(r, asked[r]) EXCEPT !.requester = q, !.gatewayUnavailable = @ \/ desk.mode = "console"]

\* What a resolution starts from: nothing it is to establish is left of an earlier one.
Begun(r, q) ==
  [Marked(r, asked[r]) EXCEPT !.requester = q, !.admin = FALSE, !.developer = FALSE,
     !.restrictedEligible = FALSE, !.gatewayUnavailable = @ \/ desk.mode = "console"]

Uses(what) == used' = [used EXCEPT ![what] = @ + 1]
Left(what) == used[what] < desk[what]

-----------------------------------------------------------------------------
(* beforeModelResolve                                                        *)

\* Up to the first await.
Resolve(r, q) ==
  /\ Left("resolve") /\ r \notin over /\ Uses("resolve")
  /\ truth' = [truth EXCEPT ![r] = [truth[r] EXCEPT !.serial = used.resolve + 1, !.by = q, !.seen = rights[q],
                                                    !.verdict = None, !.refused = @ \/ Overloaded(r)]]
  /\ IF Overloaded(r) THEN UNCHANGED <<entry, hooks>>
     ELSE /\ entry' = [entry EXCEPT ![r] = Begun(r, q)]
          /\ hooks' = IF ~GatewayReady THEN hooks
                      ELSE hooks \cup {[run |-> r, id |-> Begun(r, q).id, serial |-> used.resolve + 1, by |-> q,
                                        step |-> IF desk.mode = "console" THEN "gateway" ELSE "member",
                                        developer |-> FALSE, admin |-> FALSE]}
  /\ UNCHANGED <<desk, rights, asked, over, toolCall, passes, allowed>>

\* The hook writes to the object it began with, if the run still has it.
Writes(h, changed) ==
  entry' = IF h.run \in Kept /\ entry[h.run].id = h.id THEN [entry EXCEPT ![h.run] = changed] ELSE entry
Of(h) == entry[h.run]

GoesOn(h, next) == hooks' = (hooks \ {h}) \cup next
HookLeaves == UNCHANGED <<desk, rights, asked, over, toolCall, used, passes, allowed>>

\* The console's gateway answers with the expected catalog, or it does not.
HookGateway(h) ==
  /\ h.step = "gateway"
  /\ \/ GoesOn(h, {}) /\ UNCHANGED entry
     \/ /\ Writes(h, [Of(h) EXCEPT !.gatewayUnavailable = FALSE])
        /\ GoesOn(h, {[h EXCEPT !.step = "member"]})
  /\ HookLeaves /\ UNCHANGED truth

\* A session that named an open route needs nothing further.
DeveloperKnown(h, developer) ==
  /\ Writes(h, [Of(h) EXCEPT !.developer = developer])
  /\ LET model == asked[h.run] IN
     GoesOn(h, IF model = AutoModel \/ Restricted(model)
               THEN {[h EXCEPT !.step = "admin", !.developer = developer]} ELSE {})

\* verifiedDeveloper: the channel's members, then the role. No answer is a no.
HookMember(h) ==
  /\ h.step = "member"
  /\ \/ DeveloperKnown(h, FALSE)
     \/ /\ h.by \in DevChannel /\ "member" \in rights[h.by]
        /\ GoesOn(h, {[h EXCEPT !.step = "role"]}) /\ UNCHANGED entry
  /\ HookLeaves /\ UNCHANGED truth

HookRole(h) ==
  /\ h.step = "role"
  /\ \/ DeveloperKnown(h, FALSE)
     \/ "role" \in rights[h.by] /\ DeveloperKnown(h, TRUE)
  /\ HookLeaves /\ UNCHANGED truth

\* verifiedAdmin asks the foundation only where a route is reserved for administrators.
AdminAnswers(q) ==
  IF q \notin AdminSenders THEN {FALSE}
  ELSE IF \A x \in Routes : ~Restricted(x) THEN {TRUE}
  ELSE {FALSE} \cup {a \in {TRUE} : "admin" \in rights[q] /\ \E x \in Routes : Access(x) = "admin"}

HookAdmin(h) ==
  /\ h.step = "admin"
  /\ \E admin \in AdminAnswers(h.by) :
       /\ Writes(h, [Of(h) EXCEPT !.admin = admin])
       /\ GoesOn(h, {[h EXCEPT !.step = "decide", !.admin = admin]})
  /\ HookLeaves /\ UNCHANGED truth

\* What the decision service answers with enough certainty; each of them may be
\* missing, and all are when the service is not asked: another channel, no leave to
\* pay, a prompt that is empty or too long, attachments.
Outcomes == [route : Routes \cup {None}, task : {"simple", "coding", "other", "uncertain"},
             complex : BOOLEAN, independent : BOOLEAN]

\* The entries of runs, as records.
Entries == [id : Nat, manual : BOOLEAN, requested : Routes \cup {None}, requester : Requesters \cup {None},
            admin : BOOLEAN, developer : BOOLEAN, restrictedEligible : BOOLEAN, codingEligible : BOOLEAN,
            gatewayUnavailable : BOOLEAN, lastRoute : Routes \cup {None}, fallbackCursor : Nat]

\* What the constants range over; None is nothing else.
ASSUME DeskAssumption ==
  /\ None \notin Requesters \cup Routes /\ None \notin Outcomes \cup Entries
  /\ \A d \in Desks : /\ d.runs \subseteq Runs /\ d.people \subseteq Requesters
                       /\ d.models \subseteq Routes \cup {AutoModel} /\ d.outcomes \subseteq Outcomes
                       /\ d.rights \in [Requesters -> SUBSET Rights]

\* A choice that is certain and can be afforded, or the default.
SelectRoute(o) == IF o.route \in Routes /\ Affordable(o.route) THEN o.route ELSE DefaultRoute

\* The first route of the configuration that is one of these.
FirstOf(eligible) == Catalog[SelectInSeq(Catalog, LAMBDA x : x \in eligible)]

\* The rules that come after it, in their order. Little effort is for a certain choice of
\* an independent simple task, else the default has to be capable; None: it is not, an error.
Selection(o, admin, developer) ==
  LET coding == o.task = "coding"
      restrictedEligible == (admin \/ developer) /\ coding /\ o.complex
      Usable(x) == AccessAllowed(x, admin, developer) /\ (Restricted(x) => restrictedEligible)
      high == {x \in Routes : RouteOf[x].effort = "high" /\ Usable(x) /\ (Plan(x) => coding)}
      first == SelectRoute(o)
      raised == IF (admin \/ developer) /\ o.task \in {"coding", "uncertain"} /\ high # {}
                THEN IF first \in high THEN first ELSE FirstOf(high) ELSE first
      barred == (Plan(raised) /\ ~coding) \/ (Restricted(raised) /\ ~Usable(raised))
      open == IF barred THEN DefaultRoute ELSE raised
      light == ~barred /\ raised = o.route /\ o.task = "simple" /\ o.independent
  IN  [route |-> IF RouteOf[open].effort # "low" \/ light THEN open
                 ELSE IF RouteOf[DefaultRoute].effort # "low" THEN DefaultRoute ELSE None,
       codingEligible |-> coding, restrictedEligible |-> restrictedEligible]

\* The decision; or its cancellation by the host or an incapable default, which end the
\* hook. A session that named a restricted route keeps it.
HookDecide(h) ==
  /\ h.step = "decide" /\ GoesOn(h, {})
  /\ \/ UNCHANGED <<entry, truth>>
     \/ \E o \in desk.outcomes :
          LET selected == Selection(o, h.admin, h.developer)
              requested == IF asked[h.run] = AutoModel THEN selected.route ELSE asked[h.run]
              t == truth[h.run]
          IN  /\ selected.route # None
              /\ Writes(h, [Of(h) EXCEPT !.requested = requested, !.codingEligible = selected.codingEligible,
                                         !.restrictedEligible = selected.restrictedEligible])
              /\ truth' = [truth EXCEPT ![h.run] =
                   [t EXCEPT !.verdict = IF h.serial = t.serial THEN o ELSE @,
                             !.chosen = @ \cup {requested}, !.coding = @ \/ o.task = "coding"]]
  /\ HookLeaves

-----------------------------------------------------------------------------
(* beforeAgentRun, beforeToolCall and the settlement                         *)

\* A development agent works only for a requester that was found to be a developer.
DevelopmentOpen(r, q) == q \in DevAgents => r \in Kept /\ entry[r].developer /\ entry[r].requester = q

\* A reserved route is open to the requester whose resolution found it eligible.
ReservedOpen(r, q, x) ==
  Restricted(x) =>
    /\ r \in Kept /\ entry[r].restrictedEligible
    /\ AccessAllowed(x, entry[r].admin, entry[r].developer) /\ (Access(x) = "admin" => q \in AdminSenders)
    /\ entry[r].requester = q

\* Another route than the requested one is a declared fallback of an automatic choice.
Fallback(e, x) == ~e.manual /\ x \in ToSet(FallbackRoutes) /\ (Plan(x) => e.codingEligible)

RequestedOrFallback(e, x) == e.requested \notin {None, x} => Fallback(e, x)

\* A choice that was to be made was made.
Chosen(e, x) == (e.manual \/ e.requested # None) /\ RequestedOrFallback(e, x)

\* Another route than that of the last attempt is the next of the fallbacks.
FirstFallback(e, x) == e.lastRoute \notin {None, x} => x \in ToSet(FallbackRoutes)
NextFallback(e, x) ==
  LET ladder == RemoveFirst(FallbackRoutes, e.requested)   \* each is declared once
  IN  e.lastRoute \notin {None, x} =>
        e.fallbackCursor < Len(ladder) /\ x = ladder[e.fallbackCursor + 1]

\* An attempt of run r with route x, in the name of q, is blocked otherwise.
MayPass(r, q, x) ==
  /\ DevelopmentOpen(r, q) /\ ReservedOpen(r, q, x)
  /\ GatewayReady /\ ~Overloaded(r)
  /\ r \in Kept => ~entry[r].gatewayUnavailable /\ Chosen(entry[r], x) /\ NextFallback(entry[r], x)

\* A session that named a route may come here without a resolution, with that route.
Attempt(r, q, x) ==
  /\ Left("attempt") /\ r \notin over
  /\ IF asked[r] = AutoModel THEN truth[r].serial > 0 ELSE r \in Kept \/ x = asked[r]
  /\ MayPass(r, q, x) /\ Uses("attempt")
  /\ LET e == Marked(r, x) IN
     entry' = [entry EXCEPT ![r] = [e EXCEPT !.lastRoute = x,
                 !.fallbackCursor = IF e.lastRoute \in {None, x} THEN @ ELSE @ + 1]]
  /\ passes' = [passes EXCEPT ![r] = Append(@, [route |-> x, by |-> q, truth |-> truth[r]])]
  /\ UNCHANGED <<desk, rights, asked, over, hooks, toolCall, truth, allowed>>

ToolLeaves == UNCHANGED <<desk, rights, asked, entry, over, hooks, truth, passes>>

\* A tool call of a development agent asks about its requester again.
ToolAsk(r, q) ==
  /\ Left("tool") /\ Uses("tool") /\ r \in Kept \ over /\ toolCall[r] = None
  /\ q \in DevAgents /\ entry[r].developer /\ entry[r].requester = q
  /\ toolCall' = [toolCall EXCEPT ![r] = [by |-> q, step |-> "member", seen |-> rights[q]]]
  /\ UNCHANGED allowed /\ ToolLeaves

ToolAnswerFromEntry(r) ==
  LET c == toolCall[r] IN
  /\ c # None /\ toolCall' = [toolCall EXCEPT ![r] = None]
  /\ allowed' = IF r \in Kept /\ entry[r].developer THEN allowed \cup {c.seen} ELSE allowed
  /\ UNCHANGED used /\ ToolLeaves

ToolAnswer(r) ==
  LET c == toolCall[r] IN
  /\ c # None
  /\ \/ toolCall' = [toolCall EXCEPT ![r] = None] /\ UNCHANGED allowed
     \/ /\ c.step = "member" /\ "member" \in rights[c.by]
        /\ toolCall' = [toolCall EXCEPT ![r].step = "role"] /\ UNCHANGED allowed
     \/ /\ c.step = "role" /\ "role" \in rights[c.by]
        /\ toolCall' = [toolCall EXCEPT ![r] = None] /\ allowed' = allowed \cup {c.seen}
  /\ UNCHANGED used /\ ToolLeaves

\* lifecycleEvent: the host has accepted how the run ended.
Settle(r) ==
  /\ r \notin over /\ over' = over \cup {r}
  /\ entry' = [entry EXCEPT ![r] = None]
  /\ UNCHANGED <<desk, rights, asked, hooks, toolCall, used, truth, passes, allowed>>

\* Somebody is granted a right, or loses it.
Change(q, right) ==
  /\ Left("change") /\ Uses("change")
  /\ rights' = [rights EXCEPT ![q] = IF right \in @ THEN @ \ {right} ELSE @ \cup {right}]
  /\ truth' = [r \in Runs |-> IF truth[r].by = q /\ \E h \in hooks : h.run = r /\ h.serial = truth[r].serial
                              THEN [truth[r] EXCEPT !.seen = @ \cup rights'[q]] ELSE truth[r]]
  /\ toolCall' = [r \in Runs |-> IF toolCall[r] # None /\ toolCall[r].by = q
                                 THEN [toolCall[r] EXCEPT !.seen = @ \cup rights'[q]] ELSE toolCall[r]]
  /\ UNCHANGED <<desk, asked, entry, over, hooks, passes, allowed>>

HookStep(h) == HookGateway(h) \/ HookMember(h) \/ HookRole(h) \/ HookAdmin(h) \/ HookDecide(h)

RouterNext ==
  \/ \E h \in hooks : HookStep(h)
  \/ \E r \in desk.runs : ToolAnswer(r) \/ Settle(r)
  \/ \E r \in desk.runs, q \in desk.people : Resolve(r, q) \/ ToolAsk(r, q)
  \/ \E r \in desk.runs, q \in desk.people, x \in Routes : Attempt(r, q, x)
  \/ \E q \in desk.people, right \in Rights : Change(q, right)

Next ==
  \/ desk.mode = "service" /\ GatewayNext /\ UNCHANGED routerVars
  \/ RouterNext /\ UNCHANGED gatewayVars

Spec == Init /\ [][Next]_vars

-----------------------------------------------------------------------------
(* Properties                                                                *)

Passed(r) == ToSet(passes[r])
Developer == {"member", "role"}

\* A reserved route, and any route of a development agent, passes only on the
\* resolution that was begun last, by the same requester: it found the rights, which
\* the requester had at some moment of it, and for a reserved route substantial
\* coding. Nothing an earlier, a late or another requester's resolution established
\* counts.
EarnedRoute ==
  \A r \in Runs : \A p \in Passed(r) :
    LET t == p.truth
        complex == t.by = p.by /\ t.verdict # None /\ t.verdict.task = "coding" /\ t.verdict.complex
    IN  /\ Access(p.route) = "admin" => complex /\ "admin" \in t.seen /\ p.by \in AdminSenders
        /\ Access(p.route) = "developer" => complex /\ Developer \subseteq t.seen
        /\ p.by \in DevAgents => t.by = p.by /\ Developer \subseteq t.seen

\* An automatic run attempts nothing before a choice was made for it, and then what
\* was chosen or a declared fallback; a coding plan only if a choice found coding.
\* (A run whose resolution the router had no room for is taken as a named one.)
ChosenFirst ==
  \A r \in DOMAIN asked : asked[r] = AutoModel => \A p \in Passed(r) : ~p.truth.refused =>
    /\ p.truth.chosen # {} /\ p.route \in p.truth.chosen \cup ToSet(FallbackRoutes)
    /\ Plan(p.route) => p.truth.coding

\* A named run stays with its route; an automatic one that moves on from a route goes to
\* a declared fallback, and to one further down than every earlier move went to, over all
\* its attempts and resolutions. (The route of its first attempt is not a move: if it is a
\* fallback, a later move may come to it.)
LadderFollowed ==
  \A r \in DOMAIN asked :
    LET route(n) == passes[r][n].route
        moves == {n \in DOMAIN passes[r] : n > 1 /\ route(n) # route(n - 1)}
        rank(n) == CHOOSE k \in DOMAIN FallbackRoutes : FallbackRoutes[k] = route(n)
    IN  /\ asked[r] # AutoModel => \A n \in DOMAIN passes[r] : route(n) = asked[r]
        /\ \A n \in moves : route(n) \in ToSet(FallbackRoutes)
        /\ \A m, n \in moves : m < n => rank(m) < rank(n)

\* A tool of a development agent runs only for who was a member and had a role while
\* that very call was being decided, not for who was one when the run began.
DevelopmentFresh == \A seen \in allowed : Developer \subseteq seen
=============================================================================
