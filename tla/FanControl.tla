----------------------------- MODULE FanControl ------------------------------
(***************************************************************************)
(* What the firmware promises a host that sets the speed of the fan: every *)
(* speed that it accepts is put out before it accepts another, duty cycle, *)
(* power and percentage together, and the reports tell the speeds that     *)
(* were put out in their order.                                            *)
(***************************************************************************)
EXTENDS Integers, Sequences

VARIABLES
  accepted,  \* the last speed that was accepted
  output,    \* what the fan gets, and what is to be reported of it
  mail,      \* the report under way
  known      \* the percentage of the last report the host got

vars == <<accepted, output, mail, known>>

None == -1
Setting(v) == [duty |-> 30 + v, power |-> (v # 0), percent |-> v]

Init ==
  /\ accepted = None
  /\ output = [duty |-> 35, power |-> FALSE, percent |-> 50]
  /\ mail = <<>>
  /\ known = 50

Accept(v) ==
  /\ accepted # None => output = Setting(accepted)
  /\ accepted' = v
  /\ UNCHANGED <<output, mail, known>>

Apply ==
  /\ accepted # None
  /\ output' = Setting(accepted)
  /\ UNCHANGED <<accepted, mail, known>>

Send ==
  /\ mail = <<>>
  /\ mail' = <<output.percent>>
  /\ UNCHANGED <<accepted, output, known>>

Deliver ==
  /\ mail # <<>>
  /\ known' = Head(mail) /\ mail' = <<>>
  /\ UNCHANGED <<accepted, output>>

Next == (\E v \in 0..100 : Accept(v)) \/ Apply \/ Send \/ Deliver

Spec == Init /\ [][Next]_vars
=============================================================================
