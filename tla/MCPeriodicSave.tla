--------------------------- MODULE MCPeriodicSave ---------------------------
(***************************************************************************)
(* A search with a history variable for the time since the resume file was *)
(* last written, which save_state takes last_save_state to be.             *)
(***************************************************************************)
EXTENDS MCHillclimb

VARIABLE age   \* time since the launch or the last save, up to Interval

AgeInit == Init /\ age = 0

AgeNext ==
  /\ Next
  /\ age' = IF print_state \/ Start \/ Resume THEN 0
            ELSE IF Tick /\ age < Interval THEN age + 1 ELSE age

AgeSpec == AgeInit /\ [][AgeNext]_<< vars, age >>

\* save_state does "not save on first call" and then saves whenever 120
\* seconds have passed since last_save_state: a check that comes when the
\* file is that old writes it.
PeriodicSave ==
  [][check_shutdown /\ since # Never /\ age = Interval =>
       file'.state = "torn"]_<< vars, age >>
=============================================================================
