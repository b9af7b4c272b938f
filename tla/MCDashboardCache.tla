--------------------------- MODULE MCDashboardCache ---------------------------
(***************************************************************************)
(* A small instance of DashboardCache for TLC.  No action relates two      *)
(* dashboards but the writers', so in each behaviour one of the three is   *)
(* asked for, and the writers are those that change it.                    *)
(***************************************************************************)
EXTENDS DashboardCache, TLC

VARIABLE asked

MCInit == CacheInit /\ asked \in Key

MCNext ==
    /\ CacheNext
    /\ \A r \in Reader : rpc'[r] # "idle" => about'[r] = asked
    /\ commits' # commits => commits'[asked] # commits[asked]
    /\ UNCHANGED asked

MCSpec == MCInit /\ [][MCNext]_<<cvars, asked>>

Symmetry == Permutations(Reader)
=============================================================================
