---------------------------- MODULE AppendOnlyLog ----------------------------
(***************************************************************************)
(* What a transparency shard promises, whatever it stores and hashes to    *)
(* keep the promise: a list of events to which each is added at most once, *)
(* at the end, and for some of its prefixes the tree hash, stated once.    *)
(***************************************************************************)
EXTENDS Integers, Sequences

CONSTANTS
  Events,
  MTH(_)   \* the tree hash of a sequence of events

VARIABLES
  log,     \* the events, in order
  roots    \* the tree hash of each prefix that was stated, by its length

logVars == <<log, roots>>

LogInit == log = << >> /\ roots = << >>

AppendEvent(e) ==
  /\ \A i \in DOMAIN log : log[i] # e
  /\ log' = Append(log, e)
  /\ UNCHANGED roots

\* Of the list as it is, or as it was when the statement was asked for.
StateRoot(n) ==
  /\ n \notin DOMAIN roots
  /\ roots' = [m \in DOMAIN roots \cup {n} |->
               IF m = n THEN MTH(SubSeq(log, 1, n)) ELSE roots[m]]
  /\ UNCHANGED log

LogNext ==
  \/ \E e \in Events : AppendEvent(e)
  \/ \E n \in 0..Len(log) : StateRoot(n)

LogSpec == LogInit /\ [][LogNext]_logVars
=============================================================================
