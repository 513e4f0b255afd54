------------------------------- MODULE MCSlots -------------------------------
EXTENDS Slots

\* A bucket is two minutes, a day six buckets; the hosts' week alternates two
\* days, and guests look around dates 2 to 4. The longest meeting takes a day,
\* and half a day after it.
MCStarts == {2 * k : k \in 12 .. 29}

Event(kind, roster, before, dur, after, interval, notice, horizon, cap) ==
  [kind |-> kind, roster |-> roster, before |-> before, dur |-> dur, after |-> after,
   interval |-> interval, notice |-> notice, horizon |-> horizon, cap |-> cap]

MCEventTypes ==
  {Event("personal", {1}, 2, 2, 2, 8, 26, 4, None),
   Event("collective", {1, 2}, 0, 4, 2, None, 0, 9, None),
   Event("round_robin", {1, 2}, 0, 2, 0, None, 0, 9, 1),
   Event("personal", {1}, 0, 12, 6, 2, 0, 9, None)}

MCRanges ==
  {[start |-> r[1], end |-> r[2]] : r \in {<<24, 60>>, <<33, 49>>, <<36, 48>>, <<32, 44>>, <<41, 45>>}}

Steady == [before |-> 2, after |-> 2, at |-> 0]
Spring == [before |-> -4, after |-> -2, at |-> 42]
Autumn == [before |-> 4, after |-> 2, at |-> 42]
Cairo == [before |-> 4, after |-> 2, at |-> 44]   \* back from midnight

Weekly(even, odd) == [d \in {0, 1} |-> IF d = 0 THEN even ELSE odd]
Weeks ==
  {Weekly({<<2, 8>>}, {<<4, 12>>}), Weekly({<<0, 4>>, <<6, 12>>}, {<<0, 6>>}),
   Weekly({<<0, 12>>}, {}), Weekly({<<0, 12>>}, {<<0, 12>>})}

Row(zone, weekly, overrides) == [zone |-> zone, weekly |-> weekly, overrides |-> overrides]
NoOverride == [d \in {} |-> {}]
Rows ==
  {Row(z, w, NoOverride) : z \in {Steady, Spring, Autumn, Cairo}, w \in Weeks}
    \cup {Row(Autumn, Weekly({<<0, 12>>}, {<<4, 12>>}), [d \in {3} |-> {<<4, 6>>}]),
          Row(Steady, Weekly({<<0, 12>>}, {<<0, 12>>}), [d \in {2} |-> {}])}
Colleague == {Row(Steady, Weekly({<<0, 8>>}, {<<2, 12>>}), NoOverride), None}

Meetings == {{}, {[start |-> 31, end |-> 34], [start |-> 43, end |-> 44], [start |-> 49, end |-> 50]}}

MCSetups ==
  {[hours |-> <<mine, other>>, outside |-> <<busy, {}>>] :
     mine \in Rows, other \in Colleague, busy \in Meetings}
==============================================================================
