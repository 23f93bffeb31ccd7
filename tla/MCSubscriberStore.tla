-------------------------- MODULE MCSubscriberStore -------------------------
(***************************************************************************)
(* Instances of SubscriberStore for TLC.  Two of the four samples of       *)
(* populate-demo, an active one and an inactive one, are kept.             *)
(***************************************************************************)
EXTENDS SubscriberStore

CONSTANTS fan, small, weekly, monthly

MCDemo == << [fan |-> fan, amount |-> small, frequency |-> monthly, is_active |-> TRUE],
             [fan |-> fan, amount |-> small, frequency |-> weekly, is_active |-> FALSE] >>
=============================================================================
