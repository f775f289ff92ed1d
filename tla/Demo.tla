-------------------------------- MODULE Demo --------------------------------
(***************************************************************************)
(* The demo: players that ask for a match, a director that makes matches,  *)
(* and a page that shows what they do.                                     *)
(*                                                                         *)
(* Every component sets one field of an updater; the updater of the        *)
(* players is itself the field "clients" of the root updater, which        *)
(* announces its fields to the viewers of the page.  A field's value is    *)
(* abstracted to how many times its component has set it.                  *)
(***************************************************************************)
EXTENDS Naturals, FiniteSets, Sequences

CONSTANTS
    Players, Viewers,
    MaxUpdates,     \* bound: updates of one component
    MaxRounds,      \* bound: times a player, or the director, starts
    Casts           \* what is looked at: the part of the demo, who takes part
                    \* in it, how many rounds and updates, and what may happen
                    \* (an "rpc" fails, a "viewer" leaves, "cancel")

ASSUME DemoAssumption ==
    /\ MaxUpdates \in Nat /\ MaxRounds \in Nat \ {0}
    /\ \A c \in Casts : c.part \in {"page", "play"} /\ c.rounds \in 1..MaxRounds /\ c.updates \in 1..MaxUpdates
                       /\ c.faults \subseteq {"rpc", "viewer", "cancel"}
    /\ Players \cap {"uptime", "director", "clients"} = {}

VARIABLES
    cast,           \* the member of Casts, never changed
    children,       \* the fields of each updater
    updater,        \* where the goroutine of each updater is
    out,            \* the update each component is trying to send
    sets,           \* how many updates each component has made
    shown,          \* ByteSub.b: the fields announced last
    viewer,         \* what each viewer of the page does, and has been sent
    ctx,            \* the context of the components
    at,             \* the phase each component is in
    round,          \* how many times it has started
    pool,           \* the tickets that are in Open Match
    assignment,     \* and the connection each has been assigned
    found           \* the matches the director has yet to assign

showVars == <<cast, children, updater, out, sets, shown, viewer, ctx>>
playVars == <<at, round, pool, assignment, found>>
demoVars == <<showVars, playVars>>

Updaters == {"root", "clients"}
Actors == Players \cup {"uptime", "director"}
Sources == Actors \cup {"clients"}
UpdaterOf(x) == IF x \in Players THEN "clients" ELSE "root"
Nothing == <<>>
Quiet == [what |-> "no", value |-> 0]
AllTickets == Players \X (1..MaxRounds)

DemoTypes ==
    /\ updater \in [Updaters -> {"set", "wait", "drain", "ended"}]
    /\ \A x \in Sources : out[x].what \in {"no", "set", "nil"}
    /\ sets \in [Actors -> Nat]
    /\ \A u \in Updaters : \A x \in DOMAIN children[u] : x \in Sources /\ UpdaterOf(x) = u
    /\ \A w \in Viewers : viewer[w].pc \in {"select", "write", "gone"}
                          /\ viewer[w].ready \in {"closed", "open"}
    /\ ctx \in {"open", "done"}
    /\ round \in [Actors -> 0..MaxRounds]
    /\ pool \subseteq AllTickets
    /\ assignment \in [AllTickets -> SUBSET AllTickets]
    /\ found \subseteq SUBSET AllTickets

DemoInit ==
    /\ cast \in Casts
    /\ children = [u \in Updaters |-> Nothing]
    /\ updater = [u \in Updaters |-> "set"]
    /\ out = [x \in Sources |-> Quiet]
    /\ sets = [x \in Actors |-> 0]
    /\ shown = [announced |-> 0, fields |-> Nothing]
    /\ viewer = [w \in Viewers |-> [pc |-> "select", ready |-> "closed",
                                    got |-> Nothing, sent |-> shown]]
    /\ ctx = "open"
    /\ at = [x \in Actors |-> "start"] /\ round = [x \in Actors |-> 0]
    /\ pool = {} /\ assignment = [t \in AllTickets |-> {}] /\ found = {}

-----------------------------------------------------------------------------
(* bytesub: the latest announcement, and its subscribers.                  *)

Woken(ready) == "closed"

\* AnnounceLatest closes the channel that all viewers wait for.
AnnounceLatest(fields) ==
    /\ shown' = [announced |-> 1, fields |-> fields]
    /\ viewer' = [w \in Viewers |-> [viewer[w] EXCEPT !.ready = Woken(@)]]

\* get returns the value together with the channel of the next one.
Subscribe(w) ==
    /\ viewer[w].pc = "select" /\ viewer[w].ready = "closed"
    /\ viewer' = [viewer EXCEPT ![w].ready = "open", ![w].got = shown.fields,
                    ![w].pc = IF shown.announced = 0 THEN "select" ELSE "write"]
    /\ UNCHANGED <<cast, children, updater, out, sets, shown, ctx, playVars>>

Write(w) ==
    /\ viewer[w].pc = "write"
    /\ viewer' = [viewer EXCEPT ![w].pc = "select",
                    ![w].sent = [announced |-> 1, fields |-> viewer[w].got]]
    /\ UNCHANGED <<cast, children, updater, out, sets, shown, ctx, playVars>>

\* The viewer goes away while it is written to, or while it waits.
Leave(w) ==
    /\ "viewer" \in cast.faults /\ viewer[w].pc # "gone"
    /\ viewer' = [viewer EXCEPT ![w].pc = "gone"]
    /\ UNCHANGED <<cast, children, updater, out, sets, shown, ctx, playVars>>

-----------------------------------------------------------------------------
(* updater: the goroutine of an updater, and ForField.                     *)

Sends(x, what, value) == out' = [out EXCEPT ![x] = [what |-> what, value |-> value]]

\* An updater that is a field of another waits until its value is taken.
Blocked(u) == u = "clients" /\ out["clients"].what # "no"

Set(u) ==
    /\ updater[u] = "set" /\ cast.part = "page"
    /\ updater' = [updater EXCEPT ![u] = "wait"]
    /\ IF u = "root" THEN AnnounceLatest(children[u]) /\ UNCHANGED out
       ELSE Sends(u, "set", children[u]) /\ UNCHANGED <<shown, viewer>>
    /\ UNCHANGED <<cast, children, sets, ctx, playVars>>

With(fields, x, update) ==
    [y \in (DOMAIN fields \ {x}) \cup (IF update.what = "nil" THEN {} ELSE {x}) |->
        IF y = x THEN update.value ELSE fields[y]]

Receive(u, x) ==
    /\ updater[u] \in {"wait", "drain"} /\ ~Blocked(u)
    /\ UpdaterOf(x) = u /\ out[x].what # "no"
    /\ children' = [children EXCEPT ![u] = With(@, x, out[x])]
    /\ updater' = [updater EXCEPT ![u] = "drain"]
    /\ out' = [out EXCEPT ![x].what = "no"]
    /\ UNCHANGED <<cast, sets, shown, viewer, ctx, playVars>>

\* Mutant: the updates that are waiting are not announced.
BackToWait == "wait"

AfterDrain == "set"

\* No other update is waiting: the fields are set again.
Drained(u) ==
    /\ updater[u] = "drain"
    /\ \A x \in Sources : UpdaterOf(x) = u => out[x].what = "no"
    /\ updater' = [updater EXCEPT ![u] = AfterDrain]
    /\ UNCHANGED <<cast, children, out, sets, shown, viewer, ctx, playVars>>

Removed == "nil"

\* The updater of the players removes its field.  The root has no context
\* that ends.
Cancelled ==
    /\ updater["clients"] = "wait" /\ ~Blocked("clients") /\ ctx = "done"
    /\ updater' = [updater EXCEPT !["clients"] = "ended"]
    /\ Sends("clients", Removed, Nothing)
    /\ UNCHANGED <<cast, children, sets, shown, viewer, ctx, playVars>>

Done == ctx = "done"

\* A player's update is ignored once the context has ended.
Ignored(p) ==
    /\ Done /\ out[p].what # "no"
    /\ out' = [out EXCEPT ![p].what = "no"]
    /\ UNCHANGED <<cast, children, updater, sets, shown, viewer, ctx, playVars>>

Cancel ==
    /\ "cancel" \in cast.faults /\ ctx = "open" /\ ctx' = "done"
    /\ UNCHANGED <<cast, children, updater, out, sets, shown, viewer, playVars>>

-----------------------------------------------------------------------------
(* The components.  Each goes on when its update has been taken.           *)

\* Where the page is not looked at, an update is taken at once (UpdatesReturn).
Update(x) ==
    IF cast.part = "play" THEN UNCHANGED <<sets, out>>
    ELSE sets[x] < cast.updates /\ sets' = [sets EXCEPT ![x] = @ + 1] /\ Sends(x, "set", sets[x] + 1)

\* The component enters a phase and shows it.
Enter(x, phase) ==
    /\ out[x].what = "no"
    /\ at' = [at EXCEPT ![x] = phase]
    /\ Update(x)
    /\ UNCHANGED <<cast, children, updater, shown, viewer, ctx>>

\* An error is recovered from: it is shown, and the component starts again.
Panic(x) ==
    /\ "rpc" \in cast.faults \/ ctx = "done"
    /\ Enter(x, "error")

\* The loop around run and runScenario.
Starts(x, phase) ==
    /\ x \in cast.who /\ at[x] \in {"start", "error", "sleeping"}
    /\ IF ctx = "done"
       THEN /\ out[x].what = "no" /\ at' = [at EXCEPT ![x] = "ended"]
            /\ UNCHANGED <<round, showVars>>
       ELSE /\ round[x] < cast.rounds /\ round' = [round EXCEPT ![x] = @ + 1]
            /\ Enter(x, phase)

Uptime ==
    /\ "uptime" \in cast.who /\ at["uptime"] = "start" /\ out["uptime"].what = "no"
    /\ \/ Update("uptime") /\ UNCHANGED at
       \/ /\ ctx = "done" /\ at' = [at EXCEPT !["uptime"] = "ended"]
          /\ Sends("uptime", "nil", 0) /\ UNCHANGED sets
    /\ UNCHANGED <<cast, children, updater, shown, viewer, ctx, round, pool, assignment, found>>

\* runScenario.
TicketOf(p) == <<p, round[p]>>

PlayerStarts(p) == Starts(p, "menu") /\ UNCHANGED <<pool, assignment, found>>

Connects(p) ==
    /\ at[p] = "menu" /\ Enter(p, "connecting")
    /\ UNCHANGED <<round, pool, assignment, found>>

Dials(p) ==
    /\ at[p] = "connecting" /\ (Enter(p, "creating") \/ Panic(p))
    /\ UNCHANGED <<round, pool, assignment, found>>

\* A ticket may have been created although the call fails.
CreatesTicket(p) ==
    /\ at[p] = "creating"
    /\ \/ Enter(p, "waiting") /\ pool' = pool \cup {TicketOf(p)}
       \/ Panic(p) /\ pool' \in {pool, pool \cup {TicketOf(p)}}
    /\ UNCHANGED <<round, assignment, found>>

Connected(p) == assignment[TicketOf(p)] # {}

WatchesAssignments(p) ==
    /\ at[p] = "waiting"
    /\ (Connected(p) /\ Enter(p, "sleeping")) \/ Panic(p)
    /\ UNCHANGED <<round, pool, assignment, found>>

\* The director's run.
DirectorStarts ==
    Starts("director", "connecting") /\ UNCHANGED <<pool, assignment, found>>

DirectorDials ==
    /\ at["director"] = "connecting" /\ (Enter("director", "sending") \/ Panic("director"))
    /\ UNCHANGED <<round, pool, assignment, found>>

Unassigned == {t \in pool : assignment[t] = {}}

\* Pairs of tickets, as the match function of the demo makes them.
Pairings == {m \in SUBSET {s \in SUBSET Unassigned : Cardinality(s) = 2} :
                \A s, t \in m : s # t => s \cap t = {}}

FetchesMatches ==
    /\ at["director"] = "sending"
    /\ \/ found' \in Pairings /\ Enter("director", "found")
       \/ Panic("director") /\ UNCHANGED found
    /\ UNCHANGED <<round, pool, assignment>>

MatchesFound ==
    /\ at["director"] = "found" /\ Enter("director", "assigning")
    /\ UNCHANGED <<round, pool, assignment, found>>

Assigned(m) == [t \in AllTickets |-> IF t \in m THEN m ELSE assignment[t]]

\* One match after the other; an error drops the matches that are left.
AssignsTickets ==
    /\ at["director"] = "assigning" /\ out["director"].what = "no"
    /\ \/ /\ \E m \in found : found' = found \ {m} /\ assignment' = Assigned(m)
          /\ UNCHANGED <<at, round, pool, showVars>>
       \/ /\ \E m \in found : assignment' \in {assignment, Assigned(m)}
          /\ Panic("director") /\ found' = {} /\ UNCHANGED <<round, pool>>
       \/ /\ found = {} /\ Enter("director", "sleeping")
          /\ UNCHANGED <<round, pool, assignment, found>>

-----------------------------------------------------------------------------
PlayerStep(p) ==
    \/ PlayerStarts(p) \/ Connects(p) \/ Dials(p) \/ CreatesTicket(p)
    \/ WatchesAssignments(p) \/ Ignored(p)

DirectorStep ==
    DirectorStarts \/ DirectorDials \/ FetchesMatches \/ MatchesFound \/ AssignsTickets

UpdaterStep(u) == Set(u) \/ (\E x \in Sources : Receive(u, x)) \/ Drained(u)

Goroutines ==
    \/ \E p \in Players : PlayerStep(p)
    \/ DirectorStep \/ Uptime \/ Cancelled
    \/ \E u \in Updaters : UpdaterStep(u)
    \/ \E w \in Viewers : Subscribe(w) \/ Write(w)

DemoNext == Goroutines \/ Cancel \/ \E w \in Viewers : Leave(w)

-----------------------------------------------------------------------------
(* Properties.                                                             *)

\* How often a component had set its field when the fields were these.
SetIn(fields, x) ==
    IF x \notin Players THEN IF x \in DOMAIN fields THEN fields[x] ELSE 0
    ELSE IF "clients" \in DOMAIN fields /\ x \in DOMAIN fields["clients"]
    THEN fields["clients"][x] ELSE 0

\* The page shows what a component did in the order in which it did it, also
\* through two updaters that each skip what has been replaced: it never goes
\* back to something older, unless the components are being stopped.
ShownInOrder ==
    [][ctx' = "open" => \A x \in Actors : /\ SetIn(shown'.fields, x) >= SetIn(shown.fields, x)
           /\ \A w \in Viewers : SetIn(viewer'[w].sent.fields, x)
                                   >= SetIn(viewer[w].sent.fields, x)]_demoVars

\* A player that plays has been assigned, and so has the opponent, with the
\* same connection.
PlaysWithOpponent ==
    \A p \in Players : at[p] = "sleeping" =>
        LET m == assignment[TicketOf(p)] IN
        Cardinality(m) = 2 /\ \A t \in m : assignment[t] = m

\* In the end no component hangs in an update, the page shows the latest of
\* every component or, once they are stopped, none that removes its field, and
\* every viewer that is still there has been sent that page.
PageCatchesUp ==
    <>[](/\ \A x \in Sources : out[x].what = "no"
         /\ IF ctx = "open" THEN \A x \in Actors : SetIn(shown.fields, x) = sets[x]
            ELSE DOMAIN shown.fields \subseteq {"director"}
         /\ \A w \in Viewers : viewer[w].pc = "gone" \/ viewer[w].sent = shown)

\* The page follows the components: in order, and to the last update.
PageFollows == ShownInOrder /\ PageCatchesUp
=============================================================================
