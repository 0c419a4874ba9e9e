------------------------------ MODULE MCRouter ------------------------------
(* Five routes: a capable default, a cheap one, a coding plan, and one each   *)
(* reserved for administrators and for developers; two runs and room for     *)
(* one; an administrator and a developer.                                    *)
EXTENDS Router

CONSTANTS r1, r2, base, cheap, plan, adm, dev, ann, bob, i1, i2, i3

MCRouteOf == [x \in {base, cheap, plan, adm, dev} |->
  [access |-> CASE x = adm -> "admin" [] x = dev -> "developer" [] OTHER -> "all",
   effort |-> CASE x = base -> "medium" [] x = cheap -> "low" [] OTHER -> "high",
   billing |-> IF x = plan THEN "coding-plan" ELSE "subscription",
   verified |-> TRUE, model |-> x]]
MCCatalog == <<base, cheap, plan, adm, dev>>
MCFallback == <<plan, adm, base>>
MCProcessOf == [i \in {i1, i2, i3} |-> IF i = i3 THEN 2 ELSE 1]

Nothing == [route |-> None, task |-> "uncertain", complex |-> FALSE, independent |-> FALSE]
Says(x, task) == [route |-> x, task |-> task, complex |-> task = "coding", independent |-> TRUE]
Answers == {Nothing, Says(cheap, "simple"), Says(plan, "other"), Says(dev, "coding"), Says(base, "coding")}

Desk == [mode |-> "direct", runs |-> {r1}, people |-> {ann}, models |-> {AutoModel}, outcomes |-> Answers,
         rights |-> [q \in {ann, bob} |-> IF q = ann THEN {"admin"} ELSE {"member", "role"}],
         resolve |-> 1, attempt |-> 2, tool |-> 0, change |-> 0]

MCDesks == {
  \* two resolutions, by the same or another requester
  [Desk EXCEPT !.mode = "console", !.people = {ann, bob}, !.resolve = 2],
  \* rights that change, and a tool call
  [Desk EXCEPT !.people = {ann, bob}, !.tool = 1, !.attempt = 1, !.change = 2],
  \* a long ladder, with a choice repeated on the way
  [Desk EXCEPT !.outcomes = {Nothing, Says(plan, "coding")}, !.resolve = 2, !.attempt = 5],
  \* two runs and room for one
  [Desk EXCEPT !.runs = {r1, r2}, !.outcomes = {Nothing}, !.resolve = 3],
  \* named routes, resolved or not
  [Desk EXCEPT !.people = {ann, bob}, !.models = {base, adm, dev}, !.resolve = 2],
  \* the managed service, and a run that uses it
  [Desk EXCEPT !.mode = "service", !.models = {base}, !.outcomes = {},
               !.resolve = 0, !.attempt = 1]}
=============================================================================
