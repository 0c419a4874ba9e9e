------------------------------- MODULE Answers -------------------------------
(* The chat tools that only ask: who am I, the funds, the free candidates of *)
(* a type, which type a phrase means, the community catalog, and the binding *)
(* of the account itself.                                                    *)
(*   governance-read-tools.ts    status, funds, candidates, resolve          *)
(*   community-tools.ts          search, get                                 *)
(*   identity-tools.ts           bind_start, bind_complete, bind_status      *)
(*   backend-db-adapter.ts       what a response is read as                  *)
(* A call is one to three requests to a backend that other people change in  *)
(* the meantime, that may not answer, or that answers something unusable;    *)
(* the turn it belongs to may end between any two of them.                   *)
EXTENDS Integers, FiniteSets

CONSTANTS
  Turns,       \* host contexts: one create(ctx) of the tool factories each
  SenderOf,    \* [Turns -> account], the trusted sender
  ScopeOf,     \* [Turns -> SUBSET {"proposal", "board"}], what its channel is
               \* approved for, or {None}: a channel of no workspace
  Types,       \* proposal types a caller may name
  Phrases,     \* spellings a member or the operator may use
  NormalOf,    \* [Phrases -> a normal form], None of a blank one
  Labels,      \* the operator's names: [types it labels -> [name : Phrases, aliases : SUBSET Phrases]]
  Items,       \* what a source may list
  Worlds,      \* the states the backend may start in
  Nothing, Denied,
  Desks        \* what may meet in one behaviour: the [tools] that are called, how
               \* many [calls] are made and how many [changes] other people make

Binding == {"bind_start", "bind_complete", "bind_status"}
Tools == {"status", "funds", "candidates", "resolve", "search", "get"} \cup Binding

Accounts == {SenderOf[t] : t \in Turns}

\* {} is an account without a verified link; whoever is linked is a member.
Roles == {"member", "contributor", "director"}
Standings == {{}} \cup {s \in SUBSET Roles : "member" \in s}
Sessions == {"none", "awaiting_email", "email_verified", "registration_required", "completed", "cancelled"}

\* What the tools ask the backend about. "held" is what the source that was
\* asked lists: the funds snapshot, the free pool or the published catalog.
World == [standing : [Accounts -> Standings], types : SUBSET Types, held : SUBSET Items,
          session : [Accounts -> Sessions]]

\* Without a blank name; two types may claim the same one.
ParsedLabels ==
  /\ DOMAIN Labels \subseteq Types
  /\ \A type \in DOMAIN Labels :
       /\ Labels[type] \in [name : Phrases, aliases : SUBSET Phrases]
       /\ \A p \in {Labels[type].name} \cup Labels[type].aliases : NormalOf[p] # Nothing

ASSUME ConstantsAssumption ==
  /\ DOMAIN NormalOf = Phrases /\ ParsedLabels
  /\ Worlds \subseteq World /\ Nothing \notin Items /\ \A held \in SUBSET Items : Denied # held
  /\ \A d \in Desks : d.tools \subseteq Tools /\ {d.calls, d.changes} \subseteq Nat
  /\ \A t \in Turns : ScopeOf[t] \in (SUBSET {"proposal", "board"}) \cup {{Nothing}}

VARIABLES
  desk,
  world,     \* the backend
  ended,     \* turns that are no longer current
  call,      \* the call each turn is in, or the answer of its last one
  span,      \* history: the backend as it was since that call began
  missing,   \* history: the parts that the bodies that call was answered with lacked
  begun,     \* calls so far
  changes    \* changes so far

answersVars == <<desk, world, ended, call, span, missing, begun, changes>>

Args(tool) ==
  CASE tool = "candidates" -> Types
    [] tool = "resolve"    -> Phrases
    [] tool = "get"        -> Items
    [] OTHER               -> {Nothing}

AnswersInit ==
  /\ desk \in Desks /\ world \in Worlds /\ ended = {} /\ begun = 0 /\ changes = 0
  /\ call = [t \in Turns |-> [pc |-> "idle"]]
  /\ span = [t \in Turns |-> {}] /\ missing = [t \in Turns |-> {}]

Current(t) == t \notin ended
Me(t) == SenderOf[t]
Step(t) == call[t].step      \* what the call asks for next
Seen(t) == call[t].seen      \* what its last request was read as; None if it failed

-----------------------------------------------------------------------------
(* How a call goes on                                                        *)

AsksFor(t, step) ==
  call' = [call EXCEPT ![t] = [pc |-> "asking", tool |-> @.tool, arg |-> @.arg, step |-> step]]

\* The answer leaves: what it says, and whether the turn was current then.
Tells(t, kind, value) ==
  call' = [call EXCEPT ![t] = [pc |-> "answered", tool |-> @.tool, arg |-> @.arg,
                               kind |-> kind, value |-> value, current |-> Current(t)]]

\* An error of the call; it says nothing about the backend.
Errs(t) == Tells(t, "error", Nothing)

\* assertCurrentInvocation, right before the answer.
TellsIfCurrent(t, kind, value) == IF Current(t) THEN Tells(t, kind, value) ELSE Errs(t)

\* wrapExecute: one call at a time in a turn, and none in a stale one.
Start(t, tool, arg) ==
  /\ call[t].pc \in {"idle", "answered"} /\ begun < desk.calls /\ Current(t)
  /\ call' = [call EXCEPT ![t] = [pc |-> "minting", tool |-> tool, arg |-> arg]]
  /\ span' = [span EXCEPT ![t] = {world}] /\ missing' = [missing EXCEPT ![t] = {}] /\ begun' = begun + 1
  /\ UNCHANGED <<desk, world, ended, changes>>

\* resolveTrustedWorkspace: the channel belongs to one configured workspace.
Enrolled(t) == ScopeOf[t] # {Nothing}

\* The channels a tool is limited to.
InScope(t) ==
  CASE call[t].tool \in {"funds", "candidates"} -> "board" \in ScopeOf[t]
    [] call[t].tool = "resolve"                 -> ScopeOf[t] # {}
    [] OTHER                                    -> TRUE

FirstStep(tool) ==
  CASE tool \in {"status", "funds", "candidates", "resolve"} -> "identity"
    [] tool \in {"search", "get"}                            -> "catalog"
    [] OTHER                                                 -> tool

\* A phrase that says nothing is refused before anything is asked.
UsablePhrase(t) == call[t].tool = "resolve" => NormalOf[call[t].arg] # Nothing

\* The ingress relay gives the call its proof, or does not; then the turn is
\* checked again and the tool checks its input and channel, before any other request.
Mint(t) ==
  /\ call[t].pc = "minting"
  /\ \/ Errs(t)
     \/ /\ Enrolled(t) /\ Current(t) /\ UsablePhrase(t) /\ InScope(t)
        /\ AsksFor(t, FirstStep(call[t].tool))
  /\ UNCHANGED <<desk, world, ended, span, missing, begun, changes>>

-----------------------------------------------------------------------------
(* The backend (external): it takes the account from the proof               *)

\* The session an account may be in after each request of the binding tools.
SessionAfter(step, session) ==
  CASE step = "bind_start"                                   -> "awaiting_email"
    [] step = "bind_complete" /\ session = "email_verified"  -> "completed"
    [] OTHER                                                 -> session

Served(t, w) ==
  LET a == Me(t)
      session == IF Step(t) \in Binding THEN SessionAfter(Step(t), w.session[a]) ELSE w.session[a]
      linked == session = "completed" /\ w.session[a] # "completed"
  IN [w EXCEPT !.session[a] = session, !.standing[a] = IF linked THEN @ \cup {"member"} ELSE @]

\* What a usable response says, of the backend as it is once it served it.
Response(t, w) ==
  CASE Step(t) = "identity" -> w.standing[Me(t)]
    [] Step(t) = "types"    -> w.types
    [] Step(t) = "held"     -> w.held
    [] Step(t) = "catalog"  -> IF w.standing[Me(t)] = {} THEN Denied
                               ELSE IF call[t].tool = "get" THEN {call[t].arg} \cap w.held ELSE w.held
    [] Step(t) = "bind_complete" -> IF w.session[Me(t)] = "completed" THEN "completed" ELSE Denied
    [] OTHER                -> w.session[Me(t)]

-----------------------------------------------------------------------------
(* The adapters: what a body is read as                                      *)

\* The parts of a body that are read one by one, each with a value of its own
\* when it is missing or garbled: the contact, a role, the figure of the funds.
Parts(t, response) ==
  IF response = Nothing THEN {}
  ELSE CASE Step(t) = "identity" /\ response # {} -> (response \ {"member"}) \cup {"contact"}
         [] Step(t) = "held" /\ call[t].tool = "funds" /\ response # {} -> {"figure"}
         [] OTHER -> {}

\* A snapshot of the funds without its figure.
Blank == {Nothing}

\* A role flag that is missing is false, a contact that is missing leaves the
\* record without a name to act under, a figure is null.
ReadInPart(response, lacks) ==
  CASE "contact" \in lacks -> (response \ lacks) \cup {"unnamed"}
    [] "figure" \in lacks  -> Blank
    [] OTHER               -> response \ lacks

\* Mutant: a failed read is an empty list.
ReadAsEmpty(t, response, lacks) ==
  IF lacks # {} THEN ReadInPart(response, lacks)
  ELSE IF response = Nothing /\ Step(t) \in {"types", "held"} THEN {} ELSE response

\* A response that failed, or without its envelope, its status or its list, is no
\* answer at all.
ReadAs(t, response, lacks) == IF lacks # {} THEN ReadInPart(response, lacks) ELSE response

Heard(t, response, lacks) ==
  /\ call' = [call EXCEPT ![t] = [pc |-> "heard", tool |-> @.tool, arg |-> @.arg, step |-> @.step,
                                  seen |-> ReadAs(t, response, lacks)]]
  /\ missing' = [missing EXCEPT ![t] = @ \cup lacks]

\* The request is served and answered, perhaps in part; or served, and its answer
\* is lost or unusable; or it never arrives, is refused or times out.
Ask(t) ==
  /\ call[t].pc = "asking"
  /\ \/ /\ world' = Served(t, world)
        /\ \E response \in {Response(t, Served(t, world)), Nothing} :
             \E lacks \in SUBSET Parts(t, response) : Heard(t, response, lacks)
     \/ /\ Heard(t, Nothing, {}) /\ UNCHANGED world
  /\ span' = [u \in Turns |-> span[u] \cup IF call[u].pc \in {"idle", "answered"} THEN {} ELSE {world'}]
  /\ UNCHANGED <<desk, ended, begun, changes>>

-----------------------------------------------------------------------------
(* What each tool makes of an answer                                         *)

\* What a request that failed leaves: every tool answers with an error.
Unanswered(t) == call[t].pc = "heard" /\ Seen(t) = Nothing /\ Errs(t)

Hears(t, tool, step) == call[t].pc = "heard" /\ call[t].tool = tool /\ Step(t) = step /\ Seen(t) # Nothing

\* The roles the member record gives; a record without a contact has none to act on.
RolesSeen(t) == Seen(t) \ {"unnamed"}
HasContact(t) == Seen(t) # {} /\ "unnamed" \notin Seen(t)

\* rein_member_status
MemberStatus(t) == Hears(t, "status", "identity") /\ TellsIfCurrent(t, "standing", RolesSeen(t))

\* The Board's tools go on for a director only.
ForDirectors(t, next) ==
  IF "director" \in Seen(t) THEN AsksFor(t, next) ELSE Tells(t, "not_director", Nothing)

\* rein_funds
Funds(t) ==
  \/ Hears(t, "funds", "identity") /\ ForDirectors(t, "held")
  \/ Hears(t, "funds", "held") /\ TellsIfCurrent(t, "held", Seen(t))

ForConfigured(t) ==
  IF call[t].arg \in Seen(t) THEN AsksFor(t, "held") ELSE Tells(t, "not_configured", Seen(t))

\* Mutant: the type is looked up before the standing of the caller is.
CandidatesTypesFirst(t) ==
  \/ Hears(t, "candidates", "identity") /\ AsksFor(t, "types")
  \/ Hears(t, "candidates", "types") /\ ForConfigured(t)
  \/ Hears(t, "candidates", "held") /\ TellsIfCurrent(t, "held", Seen(t))

\* rein_poll_candidates
PollCandidates(t) ==
  \/ Hears(t, "candidates", "identity") /\ ForDirectors(t, "types")
  \/ Hears(t, "candidates", "types") /\ ForConfigured(t)
  \/ Hears(t, "candidates", "held") /\ TellsIfCurrent(t, "held", Seen(t))

\* resolveVoteTypePhrase: the types with a name or alias that is this very phrase once
\* both are normalized.
Matches(phrase) ==
  {type \in DOMAIN Labels :
     \E p \in {Labels[type].name} \cup Labels[type].aliases : NormalOf[p] = NormalOf[phrase]}

\* A channel approved for both audiences asks for the stricter standing.
Needed(t) == IF "board" \in ScopeOf[t] THEN "director" ELSE "contributor"

\* rein_vote_type_resolve
Resolve(t) ==
  \/ /\ Hears(t, "resolve", "identity")
     /\ \/ ~ HasContact(t) /\ Tells(t, "not_linked", Nothing)
        \/ /\ HasContact(t) /\ Needed(t) \notin Seen(t)
           /\ Tells(t, IF Needed(t) = "director" THEN "not_director" ELSE "not_contributor", Nothing)
        \/ /\ HasContact(t) /\ Needed(t) \in Seen(t)
           /\ IF Cardinality(Matches(call[t].arg)) > 1 THEN TellsIfCurrent(t, "ambiguous", Matches(call[t].arg))
              ELSE AsksFor(t, "types")
  \/ /\ Hears(t, "resolve", "types")
     /\ CASE Matches(call[t].arg) = {}             -> TellsIfCurrent(t, "unmapped", Seen(t))
          [] ~ (Matches(call[t].arg) \subseteq Seen(t)) -> Tells(t, "not_configured", Seen(t))
          [] OTHER                                 -> TellsIfCurrent(t, "resolved", Matches(call[t].arg))

HearsCatalog(t) == call[t].pc = "heard" /\ Step(t) = "catalog" /\ Seen(t) # Nothing

\* Mutant: the turn is checked before the lookup only.
CommunityCheckedBefore(t) ==
  HearsCatalog(t) /\ IF Seen(t) = Denied THEN Tells(t, "not_linked", Nothing) ELSE Tells(t, "held", Seen(t))

\* The four catalog tools: the backend checks the link with every request.
Community(t) ==
  HearsCatalog(t) /\ IF Seen(t) = Denied THEN TellsIfCurrent(t, "not_linked", Nothing)
                     ELSE TellsIfCurrent(t, "held", Seen(t))

\* rein_identity_bind_start: a session and the link to open.
BindStart(t) == Hears(t, "bind_start", "bind_start") /\ Tells(t, "session", Seen(t))

\* rein_identity_bind_complete: recorded only if the body says so.
BindComplete(t) ==
  Hears(t, "bind_complete", "bind_complete") /\ IF Seen(t) = Denied THEN Errs(t) ELSE Tells(t, "session", Seen(t))

\* rein_identity_bind_status: linked exactly if the session is completed.
BindStatus(t) ==
  Hears(t, "bind_status", "bind_status") /\ IF Seen(t) = "none" THEN Errs(t) ELSE Tells(t, "session", Seen(t))

Proceed(t) ==
  /\ \/ Unanswered(t) \/ MemberStatus(t) \/ Funds(t) \/ PollCandidates(t) \/ Resolve(t) \/ Community(t)
     \/ BindStart(t) \/ BindComplete(t) \/ BindStatus(t)
  /\ UNCHANGED <<desk, world, ended, span, missing, begun, changes>>

-----------------------------------------------------------------------------
(* Other people, and the conversation                                        *)

\* The website moves a session: the email is verified, found unregistered, or
\* the person gives up.
Onward(session) ==
  CASE session = "awaiting_email" -> {"email_verified", "registration_required", "cancelled"}
    [] session = "email_verified" -> {"cancelled"}
    [] OTHER                      -> {}

ChangedWorlds(w) ==
  {[w EXCEPT !.standing[a] = s] : a \in Accounts, s \in {w2.standing[b] : w2 \in Worlds, b \in Accounts} \cup {{}}}
  \cup {[w EXCEPT !.types = s] : s \in {w2.types : w2 \in Worlds} \cup {{}}}
  \cup {[w EXCEPT !.held = s] : s \in {w2.held : w2 \in Worlds} \cup {{}}}
  \cup UNION {{[w EXCEPT !.session[a] = s] : s \in Onward(w.session[a])} : a \in Accounts}

Change ==
  /\ changes < desk.changes /\ changes' = changes + 1
  /\ world' \in ChangedWorlds(world) \ {world}
  /\ span' = [t \in Turns |-> span[t] \cup IF call[t].pc \in {"idle", "answered"} THEN {} ELSE {world'}]
  /\ UNCHANGED <<desk, ended, call, missing, begun>>

\* A newer message of the conversation, or its cancellation.
EndTurn(t) ==
  /\ Current(t) /\ call[t].pc \notin {"idle", "answered"}
  /\ ended' = ended \cup {t}
  /\ UNCHANGED <<desk, world, call, span, missing, begun, changes>>

AnswersNext ==
  \/ \E t \in Turns : \E tool \in desk.tools : \E arg \in Args(tool) : Start(t, tool, arg)
  \/ \E t \in Turns : Mint(t) \/ Ask(t) \/ Proceed(t) \/ EndTurn(t)
  \/ Change

AnswersSpec == AnswersInit /\ [][AnswersNext]_answersVars

-----------------------------------------------------------------------------
(* Properties                                                                *)

Answered == {t \in Turns : call[t].pc = "answered"}

\* What an answer says of the backend, up to what a body lacked. An error says
\* nothing.
Holds(t, w) ==
  LET standing == w.standing[Me(t)]
      value == call[t].value
      kind == call[t].kind
      lacked == missing[t]
  IN CASE kind = "standing"        -> value = standing \ lacked
       [] kind = "not_linked"      -> standing = {} \/ "contact" \in lacked
       [] kind = "not_director"    -> "director" \notin standing \ lacked
       [] kind = "not_contributor" -> "contributor" \notin standing \ lacked
       [] kind = "held"            -> CASE call[t].tool = "get" -> value = {call[t].arg} \cap w.held
                                        [] "figure" \in lacked  -> value = Blank /\ w.held # {}
                                        [] OTHER                -> value = w.held
       [] kind = "not_configured"  -> /\ w.types = value
                                      /\ IF call[t].tool = "candidates" THEN call[t].arg \notin value
                                                                        ELSE ~ (Matches(call[t].arg) \subseteq value)
       [] kind = "unmapped"        -> w.types = value
       [] kind = "resolved"        -> value \subseteq w.types
       [] kind = "session"         -> w.session[Me(t)] = value
       [] OTHER                    -> TRUE

\* Whatever a tool tells was so at some moment of its call: an outage, a lost
\* answer or one without its envelope is never told as an empty pool, an empty
\* type table, a missing link, a missing role or a binding that was recorded. A
\* body that lacks a part is told as if that part, and no other, were not so.
ToldTrue == \A t \in Answered : \E w \in span[t] : Holds(t, w)

\* What the answer to a tool shows is shown to whoever had the standing for it
\* at some moment of the call, in a channel approved for it: the figures and the
\* pool to directors, the operator's types and names to those the channel is for,
\* the catalog to linked members.
Entitled ==
  \A t \in Answered : call[t].kind \in {"held", "not_configured", "unmapped", "resolved", "ambiguous"} =>
    LET role == CASE call[t].tool \in {"search", "get"} -> "member"
                  [] call[t].tool = "resolve"           -> Needed(t)
                  [] OTHER                              -> "director"
    IN /\ \E w \in span[t] : role \in w.standing[Me(t)]
       /\ role = "director" => "board" \in ScopeOf[t]
       /\ role = "contributor" => "proposal" \in ScopeOf[t]

\* governance-read-tools.ts: "a cancelled or stale turn cannot read fresh member
\* or funds data". Standing, funds, pool and catalog leave for current turns only.
FreshForCurrent == \A t \in Answered : call[t].kind \in {"standing", "held", "resolved", "unmapped"} => call[t].current
=============================================================================
