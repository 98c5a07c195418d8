---- MODULE MCFlow ----
(***************************************************************************)
(* Small instances of Flow.                                                *)
(***************************************************************************)
EXTENDS Flow

Daily(name, start, end) ==
    [name |-> name, type |-> "down", min |-> 0, max |-> Nil, time |-> "recurring",
     days |-> <<AllDays>>, start |-> start, end |-> end, once |-> FALSE, reverse |-> FALSE,
     loads |-> TRUE]

Night   == [Daily("night", 1, 3) EXCEPT !.days = <<1, 2>>]
\* Until midnight, and outside of it.
Evening == [Daily("evening", 4, 0) EXCEPT !.reverse = TRUE]
\* On the third day only.
Holiday == [Daily("holiday", 14, 16) EXCEPT !.time = "fixed", !.days = <<>>]

R(name, start, end) == [name |-> name, startDelay |-> start, endDelay |-> end]
F(period, resources) == [period |-> period, resources |-> resources]

\* Two resources, one after the other, in periods that overlap.
Staggered ==
    [periods |-> <<Night, Evening, Holiday>>, k8s |-> <<"app">>, gcp |-> <<"vm">>, project |-> TRUE,
     flows |-> <<F("night", <<R("app", 0, 1), R("vm", 1, 2)>>), F("evening", <<R("app", 0, 0)>>),
                 F("holiday", <<R("vm", 0, 2)>>)>>]
\* On a day there is not, which nobody minds before the child's webhook.
Someday == [Daily("someday", 1, 3) EXCEPT !.days = <<BadDay>>]
\* Without a project the webhook of Gcp refuses a child, and with such a day; the
\* other one has a window that would end on the next day.
Homeless ==
    [Staggered EXCEPT !.project = FALSE, !.periods = @ \o <<Someday>>,
                      !.flows = <<F("night", <<R("app", 0, 4), R("vm", 1, 2)>>),
                                  F("evening", <<R("app", 0, 0)>>),
                                  F("someday", <<R("vm", 0, 0)>>)>>]
\* What is wrong only for the reconciler: a period that there is not, and one of whose
\* window the delay leaves nothing; a resource listed twice for one period, though not
\* in one flow, and one that there is not.
Wrong == [Staggered EXCEPT !.flows = <<F("nigth", <<R("app", 0, 0)>>),
                                       F("night", <<R("vm", 2, 0)>>)>>]
Relisted ==
    [Staggered EXCEPT !.flows = <<F("night", <<R("app", 0, 1)>>),
                                  F("night", <<R("app", 1, 1), R("vn", 0, 0)>>)>>]
\* A name in both kinds.
Twice == [Staggered EXCEPT !.gcp = <<"app">>, !.flows = <<F("night", <<R("app", 0, 1)>>)>>]

MCDefinition == [staggered |-> Staggered, homeless |-> Homeless, wrong |-> Wrong,
                 relisted |-> Relisted, twice |-> Twice]
MCSpecs == DOMAIN MCDefinition
MCManual == [periods |-> <<Daily("mine", 0, 5)>>, project |-> TRUE]
====
