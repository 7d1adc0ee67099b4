---------------------------- MODULE CuckooFilter ----------------------------
(***************************************************************************)
(* The cuckoo filter of cuckoo.rs.  A key is represented by what the       *)
(* filter sees of it: its first bucket and its fingerprint.  bucket2 xors  *)
(* the bucket with a hash of the fingerprint, which makes it an involution *)
(* that may also be the identity; it is a parameter here.                  *)
(*                                                                         *)
(* add and merge place a fingerprint in a free slot or start a cascade of  *)
(* kicks.  A kick, with its random slot, is one step; the filter belongs   *)
(* to the caller, who holds the router's lock, so no other operation is    *)
(* interleaved with a cascade.  The element counter is left out.           *)
(***************************************************************************)
EXTENDS Naturals, Sequences

CONSTANTS
    Bucket, Slot,
    Fingerprint,            \* the values of a used slot; 0 marks a free one
    bucket2(_, _),          \* bucket2(b, fp): the other bucket of fp
    MAX_KICKS, MERGE_KICKS, \* bounds of the cascades of add and of merge
    Walks                   \* filters to merge, as sequences of their (bucket, fp)

ASSUME FilterAssumption ==
    /\ 0 \notin Fingerprint
    /\ \A b \in Bucket, fp \in Fingerprint :
          bucket2(b, fp) \in Bucket /\ bucket2(bucket2(b, fp), fp) = b
    /\ MAX_KICKS \in Nat \ {0} /\ MERGE_KICKS \in Nat \ {0}
    /\ Walks \subseteq Seq(Bucket \X Fingerprint)

VARIABLES
    buckets,    \* buckets[b][s]: a fingerprint or 0
    cascade,    \* the cascade under way: a set of at most one [left, bucket, fp]
    walk,       \* what merge has yet to take from the other filter
    members,    \* keys added or merged and not removed
    removed,    \* keys that were members once
    lost        \* what cascades that ran out of kicks dropped

filter_vars == <<buckets, cascade, walk, members, removed, lost>>

Key == Bucket \X Fingerprint

FilterInit ==
    /\ buckets = [b \in Bucket |-> [s \in Slot |-> 0]]
    /\ cascade = {}
    /\ walk = <<>>
    /\ members = {}
    /\ removed = {}
    /\ lost = {}

contains_slot(b, fp) == \E s \in Slot : buckets[b][s] = fp

contains(b, fp) == contains_slot(b, fp) \/ contains_slot(bucket2(b, fp), fp)

HasRoom(b) == contains_slot(b, 0)

(* insert_slot takes the first free slot; which one it is makes no         *)
(* difference to a later lookup, so any free slot is taken.                *)
insert_slot(b, fp) ==
    \E s \in Slot : /\ buckets[b][s] = 0
                    /\ buckets' = [buckets EXCEPT ![b][s] = fp]

Place(b, fp) ==
    IF HasRoom(b) THEN insert_slot(b, fp) ELSE insert_slot(bucket2(b, fp), fp)

Fits(b, fp) == HasRoom(b) \/ HasRoom(bucket2(b, fp))

(* The keys the filter cannot tell from (b, fp).                           *)
Alias(b, fp) == {<<b, fp>>, <<bucket2(b, fp), fp>>}

Idle == cascade = {} /\ walk = <<>>

(* add does not look whether the key is there.  Its cascade starts in      *)
(* either bucket.                                                          *)
add(b, fp) ==
    /\ Idle
    /\ <<b, fp>> \notin members
    /\ members' = members \cup {<<b, fp>>}
    /\ \/ Fits(b, fp) /\ Place(b, fp) /\ UNCHANGED cascade
       \/ /\ ~Fits(b, fp)
          /\ \E c \in {b, bucket2(b, fp)} :
                cascade' = {[left |-> MAX_KICKS, bucket |-> c, fp |-> fp]}
          /\ UNCHANGED buckets
    /\ UNCHANGED <<walk, removed, lost>>

NextBucket_M(b, old, new) == bucket2(b, old)

(* The bucket a fingerprint kicked out of b goes to: its own other bucket. *)
NextBucket(b, old, new) == bucket2(b, new)

kick ==
    \E c \in cascade, s \in Slot :
        LET out == buckets[c.bucket][s]
            next == NextBucket(c.bucket, c.fp, out)
            swapped == [buckets EXCEPT ![c.bucket][s] = c.fp]
        IN  /\ \/ \E t \in Slot :
                    /\ swapped[next][t] = 0
                    /\ buckets' = [swapped EXCEPT ![next][t] = out]
                    /\ cascade' = {}
                    /\ UNCHANGED lost
               \/ /\ \A t \in Slot : swapped[next][t] # 0
                  /\ buckets' = swapped
                  /\ IF c.left > 1
                        THEN /\ cascade' = {[left |-> c.left - 1, bucket |-> next, fp |-> out]}
                             /\ UNCHANGED lost
                        ELSE /\ cascade' = {}
                             /\ lost' = lost \cup {<<next, out>>}
            /\ UNCHANGED <<walk, members, removed>>

remove(b, fp) ==
    /\ Idle
    /\ <<b, fp>> \in members
    /\ members' = members \ Alias(b, fp)
    /\ removed' = removed \cup Alias(b, fp)
    /\ LET c == IF contains_slot(b, fp) THEN b ELSE bucket2(b, fp)
       IN  \/ \E s \in Slot : /\ buckets[c][s] = fp
                              /\ buckets' = [buckets EXCEPT ![c][s] = 0]
           \/ ~contains_slot(c, fp) /\ UNCHANGED buckets
    /\ UNCHANGED <<cascade, walk, lost>>

merge(w) ==
    /\ Idle
    /\ walk' = w
    /\ UNCHANGED <<buckets, cascade, members, removed, lost>>

Present_M(b, fp) == \E c \in Bucket : contains_slot(c, fp)

Present(b, fp) == contains(b, fp)

(* One slot of the other filter: skipped if its fingerprint is already     *)
(* there, placed, or put in by a cascade that starts in its own bucket.    *)
merge_slot ==
    /\ cascade = {}
    /\ walk # <<>>
    /\ LET b == Head(walk)[1]
           fp == Head(walk)[2]
       IN  /\ members' = members \cup {<<b, fp>>}
           /\ \/ Present(b, fp) /\ UNCHANGED <<buckets, cascade>>
              \/ ~Present(b, fp) /\ Fits(b, fp) /\ Place(b, fp) /\ UNCHANGED cascade
              \/ /\ ~Present(b, fp) /\ ~Fits(b, fp)
                 /\ cascade' = {[left |-> MERGE_KICKS, bucket |-> b, fp |-> fp]}
                 /\ UNCHANGED buckets
    /\ walk' = Tail(walk)
    /\ UNCHANGED <<removed, lost>>

FilterNext ==
    \/ \E k \in Key : add(k[1], k[2]) \/ remove(k[1], k[2])
    \/ \E w \in Walks : merge(w)
    \/ kick
    \/ merge_slot

FilterSpec == FilterInit /\ [][FilterNext]_filter_vars

-----------------------------------------------------------------------------
(* Properties.                                                             *)

(* A member is found, whatever was kicked to make room for others and      *)
(* however often filters were merged, unless its fingerprint is in the     *)
(* hand of a cascade or a cascade that ran out of kicks dropped it         *)
(* (contains after add and merge).                                         *)
MembersFound ==
    \A k \in members :
        \/ contains(k[1], k[2])
        \/ \E c \in cascade : k \in Alias(c.bucket, c.fp)
        \/ \E l \in lost : k \in Alias(l[1], l[2])

(* "every fingerprint sits in one of its two valid buckets", also after a  *)
(* cascade that gave up (the comment in merge): each used slot is a bucket *)
(* of some key that was put in.                                            *)
FingerprintsHomed ==
    \A b \in Bucket, s \in Slot :
        buckets[b][s] # 0 => Alias(b, buckets[b][s]) \cap (members \cup removed) # {}
=============================================================================
