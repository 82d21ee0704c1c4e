------------------------------ MODULE Registry ------------------------------
(***************************************************************************)
(* The rows that jobs and discovery runs refer to: the repositories and    *)
(* the tracker integrations attached to them.  A member of Repos or        *)
(* Trackers is a row's id, which a deleted row takes with it: registering  *)
(* the same name again makes another row.                                  *)
(***************************************************************************)
CONSTANTS
  Repos, Trackers,   \* the rows there may be
  NoTracker,         \* a repository with no tracker attached
  Sample             \* the repository of the development sample

ASSUME RegistryAssumption == Sample \in Repos /\ NoTracker \notin Trackers

VARIABLES
  repositories,      \* each repository: its life, and the tracker attached to it
  trackers           \* the life of each tracker integration

registryVars == <<repositories, trackers>>

Lives == {"new", "here", "gone"}

RegistryTypes ==
  /\ repositories \in [Repos -> [life : Lives, tracker : Trackers \cup {NoTracker}]]
  /\ trackers \in [Trackers -> Lives]

RegistryInit ==
  /\ repositories = [r \in Repos |-> [life |-> "new", tracker |-> NoTracker]]
  /\ trackers = [t \in Trackers |-> "new"]

Registered(r) == repositories[r].life = "here"

\* POST /tracker-integrations: the row of that name, which is made if it is not there.
SaveTracker(t) ==
  /\ trackers[t] # "gone"
  /\ trackers' = [trackers EXCEPT ![t] = "here"]
  /\ UNCHANGED repositories

\* The database detaches a tracker that is deleted.
DeleteTracker(t) ==
  /\ trackers[t] = "here"
  /\ trackers' = [trackers EXCEPT ![t] = "gone"]
  /\ repositories' = [r \in Repos |-> IF repositories[r].tracker = t
                                      THEN [repositories[r] EXCEPT !.tracker = NoTracker]
                                      ELSE repositories[r]]

\* POST or PUT of a repository: the tracker of the form has to be there.
SaveRepository(r, t) ==
  /\ repositories[r].life # "gone"
  /\ t # NoTracker => trackers[t] = "here"
  /\ repositories' = [repositories EXCEPT ![r] = [life |-> "here", tracker |-> t]]
  /\ UNCHANGED trackers

UpsertSample ==
  /\ repositories[Sample].life # "gone"
  /\ repositories' = [repositories EXCEPT ![Sample].life = "here"]
  /\ UNCHANGED trackers

\* What a deletion does to the rows that refer to the repository is ReviewDesk's.
DropRepository(r) ==
  /\ Registered(r)
  /\ repositories' = [repositories EXCEPT ![r] = [life |-> "gone", tracker |-> NoTracker]]
  /\ UNCHANGED trackers
=============================================================================
