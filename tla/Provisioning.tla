---------------------------- MODULE Provisioning ----------------------------
(***************************************************************************)
(* Cold start of a camera: planning workers that find it unregistered put  *)
(* placeholder rows in place while the administrator seeds the real ones.  *)
(*                                                                         *)
(* The planning session does not announce its writes.  On SQLite a         *)
(* successful insert of upsert_by_pk is its own transaction: the driver    *)
(* opens none before the SAVEPOINT, and releasing the outermost savepoint  *)
(* commits.  After a conflict the update stays open until the session      *)
(* commits, and keeps the write lock.  On PostgreSQL both are              *)
(* INSERT .. ON CONFLICT DO UPDATE, open until the commit.                 *)
(***************************************************************************)
EXTENDS Backend, FiniteSets

CONSTANTS Planners   \* worker slots whose jobs are about the same new camera

Seeder == "seeder"

ASSUME ProvAssumption == Seeder \notin Planners

Actors == Planners \cup {Seeder}
AutoLocation == "loc_auto_unregistered"
Lobby == "loc_lobby_01"
RealCamera == [location |-> Lobby, policy |-> "policy_public_area"]
Placeholder == [location |-> AutoLocation, policy |-> "inherit"]
NoCamera == [location |-> "nowhere", policy |-> "inherit"]

VARIABLES
  places,   \* location_id -> policy, of the committed location rows
  device,   \* the committed row of the camera, or NoCamera
  plan,     \* each actor's session: place in the code, whether it has a write
            \* transaction open and its rows, the camera it goes by
  context,  \* the access policy each planner resolved for its records
  stale,    \* history: planners that had looked before the seed was committed
  lateLook  \* history: planners that looked after it

provVars == <<backend, places, device, plan, context, stale, lateLook>>

Closed ==
  [pc |-> "start", open |-> FALSE, places |-> {}, device |-> NoCamera, camera |-> NoCamera]

ProvInit ==
  /\ backend \in Backends
  /\ places = {}
  /\ device = NoCamera
  /\ plan = [a \in Actors |-> Closed]
  /\ context = [w \in Planners |-> "none"]
  /\ stale = {} /\ lateLook = {}

PlacesSeen(a) == places \cup plan[a].places
DeviceSeen(a) == IF plan[a].device # NoCamera THEN plan[a].device ELSE device

\* The write lock, or the lock of the row that is about to be written.
Waits(a, row) ==
  \E b \in Actors \ {a} :
    IF backend = "sqlite" THEN plan[b].open
    ELSE row \in plan[b].places \/ (row = "device" /\ plan[b].device # NoCamera)

-----------------------------------------------------------------------------
(* upsert_by_pk *)

\* Seeded fault: get-then-merge, whose loser fails with an IntegrityError.
UpsertLocationByMerge(a, location, next) ==
  /\ ~Waits(a, location)
  /\ IF backend = "sqlite" /\ ~plan[a].open /\ location \notin places
     THEN places' = places \cup {location} /\ plan' = [plan EXCEPT ![a].pc = next]
     ELSE /\ UNCHANGED places
          /\ plan' = [plan EXCEPT ![a] = IF location \in places
               THEN [Closed EXCEPT !.pc = "failed"]
               ELSE [@ EXCEPT !.pc = next, !.open = TRUE, !.places = @ \cup {location}]]
  /\ UNCHANGED <<backend, device, context, stale, lateLook>>

UpsertLocation(a, location, next) ==
  /\ ~Waits(a, location)
  /\ IF backend = "sqlite" /\ ~plan[a].open /\ location \notin places
     THEN places' = places \cup {location} /\ plan' = [plan EXCEPT ![a].pc = next]
     ELSE /\ UNCHANGED places
          /\ plan' = [plan EXCEPT ![a].pc = next, ![a].open = TRUE,
                                  ![a].places = @ \cup {location}]
  /\ UNCHANGED <<backend, device, context, stale, lateLook>>

UpsertCamera(a, row, next) ==
  /\ ~Waits(a, "device")
  /\ IF backend = "sqlite" /\ ~plan[a].open /\ device = NoCamera
     THEN device' = row /\ plan' = [plan EXCEPT ![a].pc = next, ![a].camera = row]
     ELSE /\ UNCHANGED device
          /\ plan' = [plan EXCEPT ![a].pc = next, ![a].open = TRUE, ![a].device = row,
                                  ![a].camera = row]
  /\ UNCHANGED <<backend, places, context, stale, lateLook>>

-----------------------------------------------------------------------------
(* resolve_video_context *)

Step(a, next) ==
  /\ plan' = [plan EXCEPT ![a].pc = next]
  /\ UNCHANGED <<backend, places, device, context, stale>>

GetCamera(w) ==
  /\ plan[w].pc = "start" /\ context[w] = "none"
  /\ plan' = [plan EXCEPT
       ![w].camera = device,
       ![w].pc = IF device = NoCamera THEN "get_auto" ELSE "get_location"]
  /\ UNCHANGED <<backend, places, device, context, stale>>
  /\ lateLook' = IF plan[Seeder].pc = "done" THEN lateLook \cup {w} ELSE lateLook

\* _provision_camera
GetAutoLocation(w) ==
  /\ plan[w].pc = "get_auto"
  /\ Step(w, IF AutoLocation \in PlacesSeen(w) THEN "put_camera" ELSE "put_auto")
  /\ UNCHANGED lateLook
PutAutoLocation(w) == plan[w].pc = "put_auto" /\ UpsertLocation(w, AutoLocation, "put_camera")
PutCamera(w) == plan[w].pc = "put_camera" /\ UpsertCamera(w, Placeholder, "get_location")

\* A camera row always has its location row (ColdStartIsSafe), so the second
\* _provision_location of resolve_video_context finds nothing to do.
GetLocation(w) ==
  /\ plan[w].pc = "get_location"
  /\ plan[w].camera.location \in PlacesSeen(w)
  /\ Step(w, "resolve")
  /\ UNCHANGED lateLook

\* resolve_access_policy_id, then the planning session commits.
PolicyOf(row) == IF row.policy # "inherit" THEN row.policy ELSE "default"
ResolveAndCommit(w) ==
  /\ plan[w].pc = "resolve"
  /\ context' = [context EXCEPT ![w] = PolicyOf(plan[w].camera)]
  /\ places' = PlacesSeen(w)
  /\ device' = DeviceSeen(w)
  /\ plan' = [plan EXCEPT ![w] = [Closed EXCEPT !.pc = "done"]]
  /\ UNCHANGED <<backend, stale, lateLook>>

\* The worker dies or busy_timeout runs out: rollback, and the job is retried.
PlanningAborts(w) ==
  /\ plan[w].pc \notin {"start", "done", "failed"}
  /\ plan' = [plan EXCEPT ![w] = Closed]
  /\ UNCHANGED <<backend, places, device, context, stale, lateLook>>

-----------------------------------------------------------------------------
(* seed_local_defaults *)

SeedAuto == plan[Seeder].pc = "start" /\ UpsertLocation(Seeder, AutoLocation, "policy")
\* The policy and the principal: get and merge, a write that opens the transaction.
SeedPolicy ==
  /\ plan[Seeder].pc = "policy" /\ ~Waits(Seeder, "policy")
  /\ plan' = [plan EXCEPT ![Seeder].pc = "lobby", ![Seeder].open = TRUE]
  /\ UNCHANGED <<backend, places, device, context, stale, lateLook>>
SeedLobby == plan[Seeder].pc = "lobby" /\ UpsertLocation(Seeder, Lobby, "camera")
SeedCamera == plan[Seeder].pc = "camera" /\ UpsertCamera(Seeder, RealCamera, "commit")
SeedCommit ==
  /\ plan[Seeder].pc = "commit"
  /\ places' = PlacesSeen(Seeder)
  /\ device' = DeviceSeen(Seeder)
  /\ plan' = [plan EXCEPT ![Seeder] = [Closed EXCEPT !.pc = "done"]]
  /\ stale' = {w \in Planners : plan[w].pc \notin {"start", "done", "failed"}}
  /\ UNCHANGED <<backend, context, lateLook>>

ProvNext ==
  \/ SeedAuto \/ SeedPolicy \/ SeedLobby \/ SeedCamera \/ SeedCommit
  \/ \E w \in Planners :
       \/ GetCamera(w) \/ GetAutoLocation(w) \/ PutAutoLocation(w) \/ PutCamera(w)
       \/ GetLocation(w) \/ ResolveAndCommit(w) \/ PlanningAborts(w)

ProvSpec == ProvInit /\ [][ProvNext]_provVars

-----------------------------------------------------------------------------
(* Properties *)

\* The cold-start race of upsert_by_pk: no job fails because another one, or the
\* seed, was first; a camera's location is there whenever the camera is.  A
\* camera that was seeded keeps its registration, and later jobs get its policy,
\* unless a planner had looked before the seed was committed: that planner's
\* upsert replaces the registration by the placeholder.
ColdStartIsSafe ==
  /\ \A w \in Planners : plan[w].pc # "failed"
  /\ device # NoCamera => device.location \in places
  /\ plan[Seeder].pc = "done" /\ stale = {} =>
       /\ device = RealCamera
       /\ \A w \in lateLook : context[w] \in {"none", RealCamera.policy}
=============================================================================
