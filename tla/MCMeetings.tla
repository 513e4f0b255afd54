------------------------------- MODULE MCMeetings -------------------------------
(***************************************************************************)
(* Three bookings over two hosts and two buckets; the cron may prune the   *)
(* first. One meeting of three bookings, and two requests that move and    *)
(* cancel it. Bookings and hosts are interchangeable, and every property   *)
(* is one of safety.                                                       *)
(* A day of two minutes and months of two or three days: zones up to a     *)
(* day apart, one of them put forward among the starts, which lie on both  *)
(* sides of the edges of a day and of a month.                             *)
(***************************************************************************)
EXTENDS Meetings, TLC

PageZone(before, after, at) == [before |-> before, after |-> after, at |-> at]
PageZones == {PageZone(-1, -1, 0), PageZone(1, 1, 0), PageZone(0, 1, 5)}

MonthsOfPages == <<-2, 0, 2, 5, 7, 9, 11>>

Interchangeable == UNION {Permutations(S) : S \in {Ids, Hosts}}
================================================================================
