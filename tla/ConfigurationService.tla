------------------------ MODULE ConfigurationService ------------------------
(***************************************************************************)
(* What the configuration manager promises to those who call its services, *)
(* without the map of drivers, the lists of hardware to load and to unload *)
(* and the threads that start and stop controllers.                        *)
(*                                                                         *)
(* The robot holds some hardware with some controllers.  A transition      *)
(* replaces what it holds, for one thread at a time, and as a transaction  *)
(* does: first everything the new configuration needs is prepared, next to *)
(* what runs; then the new controllers are started; only when all of them  *)
(* are there does the old hardware go; and the transition commits when the *)
(* new configuration, and nothing else, is left.  A transition that fails  *)
(* stays where it is.  What it left is cleared by one that follows.        *)
(***************************************************************************)
CONSTANTS
  Hw,        (* names of hardware interfaces                               *)
  Names,     (* names of configurations                                    *)
  Defs,      (* the definitions a name may have on the parameter server    *)
  Threads,   (* those who call: spinner threads and the main thread        *)
  NoThread,  (* nobody changes anything                                    *)
  NoRequest  (* the thread asks for nothing                                *)

VARIABLES
  up,        (* the node is there                                          *)
  request,   (* request[t]: what thread t asks for                         *)
  holder,    (* whose transition is in progress                            *)
  stage,     (* how far it is                                              *)
  goal,      (* the configuration it leads to                              *)
  content,   (* hardware that is loaded -> its controllers                 *)
  active,    (* the name the node believes it runs                         *)
  outcome,   (* how the last transition ended                              *)
  tidy       (* a transition may build on what is there                    *)

vars == <<up, request, holder, stage, goal, content, active, outcome, tidy>>

Nothing == [h \in {} |-> {}]
Empty == [name |-> "", components |-> Nothing]

Requests == [kind : {"start"}, name : Names \cup {"", "None"}]
              \cup [kind : {"stop"}, name : {""}]

(* Where a request may lead: to some definition of the name it asks for,   *)
(* or to the empty configuration.                                          *)
Goals(r) ==
  IF r.kind = "start"
  THEN [name : {r.name} \cap Names, components : Defs]
  ELSE {Empty}

Init ==
  /\ up = TRUE
  /\ request = [t \in Threads |-> NoRequest]
  /\ holder = NoThread
  /\ stage = "idle"
  /\ goal = Empty
  /\ content = Nothing
  /\ active = "None"
  /\ outcome = "none"
  /\ tidy = TRUE

-----------------------------------------------------------------------------
(* A client calls a service, or the main thread decides to stop.           *)
Ask(t) ==
  /\ request[t] = NoRequest
  /\ \E r \in Requests : request' = [request EXCEPT ![t] = r]
  /\ UNCHANGED <<holder, stage, goal, content, active, outcome, tidy>>

(* A start is answered without a transition: it runs already, there is no  *)
(* such configuration, or its parameters are missing.  A stop never is.    *)
Decline(t) ==
  /\ stage = "idle"
  /\ request[t] # NoRequest
  /\ request[t].kind = "start"
  /\ request' = [request EXCEPT ![t] = NoRequest]
  /\ outcome' \in {outcome, "failed"}
  /\ UNCHANGED <<holder, stage, goal, content, active, tidy>>

(* A transition begins when no other is in progress.                       *)
Begin(t) ==
  /\ stage = "idle"
  /\ request[t] # NoRequest
  /\ goal' \in Goals(request[t])
  /\ request[t].kind = "start" => goal'.name # active
  /\ holder' = t
  /\ stage' = IF tidy THEN "prepare" ELSE "clear"
  /\ tidy' = FALSE
  /\ UNCHANGED <<request, content, active, outcome>>

-----------------------------------------------------------------------------
Wanted == DOMAIN goal.components

(* The controllers of h, or h as a whole, go.                              *)
Remove(h) ==
  /\ h \in DOMAIN content
  /\ \/ \E left \in SUBSET content[h] :
          content' = [content EXCEPT ![h] = left]
     \/ content' = [g \in DOMAIN content \ {h} |-> content[g]]

(* h is loaded, without controllers.                                       *)
Add(h) ==
  /\ h \notin DOMAIN content
  /\ content' = [g \in DOMAIN content \cup {h} |->
                   IF g = h THEN {} ELSE content[g]]

(* Controllers of h that are wanted come, and others go.                   *)
Replace(h) ==
  /\ h \in DOMAIN content
  /\ \E now \in SUBSET (content[h] \cup goal.components[h]) :
       content' = [content EXCEPT ![h] = now]

(* What a stage may do to the hardware h, and to no other.                 *)
Work(h) ==
  \/ stage = "clear" /\ Remove(h)
  \/ stage = "prepare" /\ Add(h)
  \/ stage = "move" /\ h \in Wanted /\ Replace(h)
  \/ stage = "retire" /\ h \notin Wanted /\ Remove(h)

Proceed(h) ==
  /\ Work(h)
  /\ UNCHANGED <<request, holder, stage, goal, active, outcome, tidy>>

(* Everything is gone: what is needed can be prepared.                     *)
Cleared == stage = "clear" /\ content = Nothing /\ stage' = "prepare"

(* Everything that is needed is there: controllers may be started.         *)
Prepared == stage = "prepare" /\ Wanted \subseteq DOMAIN content /\ stage' = "move"

(* The new configuration runs: what is left of the old one may go.         *)
Moved ==
  /\ stage = "move"
  /\ \A h \in Wanted : h \in DOMAIN content /\ content[h] = goal.components[h]
  /\ stage' = "retire"

Advance ==
  /\ Cleared \/ Prepared \/ Moved
  /\ UNCHANGED <<request, holder, goal, content, active, outcome, tidy>>

Answered ==
  /\ stage' = "idle"
  /\ holder' = NoThread
  /\ goal' = Empty
  /\ request' = [request EXCEPT ![holder] = NoRequest]

(* The new configuration is there, and nothing else.                       *)
Commit ==
  /\ stage = "retire"
  /\ content = goal.components
  /\ active' = goal.name
  /\ outcome' = "ok"
  /\ tidy' = TRUE
  /\ Answered
  /\ UNCHANGED content

(* A transition gives up, maybe with its last piece of work half done.     *)
Fail ==
  /\ stage # "idle"
  /\ content' = content \/ \E h \in Hw : Work(h)
  /\ outcome' = "failed"
  /\ tidy' \in BOOLEAN
  /\ Answered
  /\ UNCHANGED active

(* The node exits, or crashes: nothing is promised any more.               *)
Leave == up' = FALSE

Next ==
  \/ Leave
  \/ /\ up /\ up'
     /\ \/ \E t \in Threads : Ask(t) \/ Decline(t) \/ Begin(t)
        \/ \E h \in Hw : Proceed(h)
        \/ Advance
        \/ Commit
        \/ Fail

Spec == Init /\ [][Next]_vars
=============================================================================
