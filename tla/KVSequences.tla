---------------------------- MODULE KVSequences ----------------------------
(***************************************************************************)
(* What an attention KV cache promises its client, whatever its layout     *)
(* (the KVStateObj and AttentionKVCacheObj interfaces): every sequence is  *)
(* the list of the tokens appended to it, less the ones popped and the     *)
(* ones a sliding window let go.  Sequences never see each other's tokens  *)
(* except the prefix a fork copies.  An operation that cannot be carried   *)
(* out for want of memory makes the cache fail; only Clear brings a failed *)
(* cache back.                                                             *)
(***************************************************************************)
EXTENDS Integers, SequencesExt, FiniteSetsExt, Functions, TLC

CONSTANTS
  SeqIds,        \* the sequence ids clients use
  AppendLengths, \* the append lengths of one forward
  Windows,       \* the <<sliding_window_size, attn_sink_size>> clients ask for
  MaxBatch,      \* the largest batch of one forward
  MaxTokens      \* the largest number of a token

VARIABLES
  store,         \* the sequences in the cache
  failed,        \* an operation was given up half-way
  call           \* the last call: its request, and a bit that changes with every call

vars == <<store, failed, call>>

NoWindow == -1

EmptySeq == [tokens |-> <<>>, window |-> NoWindow, pinned |-> 0]

Held == UNION {{store[s].tokens[i] : i \in DOMAIN store[s].tokens} : s \in DOMAIN store}

\* The K/V of the new tokens of a batch, which gives some of the sequences an append
\* length.  Tokens are numbered: no new one is equal to another or to one in the cache.
Fresh(batch) ==
  LET unused == SelectSeq([i \in 1..MaxTokens |-> i], LAMBDA t : t \notin Held)
      skipped(s) == FoldFunctionOnSet(+, 0, batch, {t \in DOMAIN batch : t < s})
  IN  [s \in DOMAIN batch |-> SubSeq(unused, skipped(s) + 1, skipped(s) + batch[s])]

\* A sequence longer than its window keeps its pinned tokens (the attention
\* sink) and the last ones.
Slide(q) ==
  LET n == Len(q.tokens)
      SinkAndWindow == SubSeq(q.tokens, 1, q.pinned)
                         \o SubSeq(q.tokens, n - (q.window - q.pinned) + 1, n)
  IN  IF q.window # NoWindow /\ n > q.window
      THEN [q EXCEPT !.tokens = SinkAndWindow]
      ELSE q
-----------------------------------------------------------------------------
Init ==
  /\ store = <<>>
  /\ failed = FALSE
  /\ call = [request |-> <<"clear">>, odd |-> FALSE]

\* The client makes a call.
Request(r) == call' = [request |-> r, odd |-> ~call.odd]

\* The cache goes on with the sequences ids; those in changed may be different.
Changes(ids, changed) ==
  /\ failed' = FALSE
  /\ DOMAIN store' = ids
  /\ \A s \in ids \ changed : store'[s] = store[s]

AddSequence(s) ==
  /\ Request(<<"add", s>>)
  /\ s \notin DOMAIN store
  /\ Changes(DOMAIN store \cup {s}, {s})
  /\ store'[s] = EmptySeq

RemoveSequence(s) ==
  /\ Request(<<"remove", s>>)
  /\ Changes(DOMAIN store \ {s}, {})

\* The child has the first fork_pos tokens of s, and nothing else of s.
ForkSequence(s, child, fork_pos) ==
  /\ Request(<<"fork", s, child, fork_pos>>)
  /\ child \notin DOMAIN store
  /\ Changes(DOMAIN store \cup {child}, {child})
  /\ store'[child] = [EmptySeq EXCEPT !.tokens = SubSeq(store[s].tokens, 1, fork_pos)]

PopN(s, n) ==
  /\ Request(<<"pop", s, n>>)
  /\ Changes(DOMAIN store, {s})
  /\ store'[s] = [store[s] EXCEPT !.tokens = SubSeq(@, 1, Len(@) - n)]

\* The cache may pin more than the client asks for: the prefix the sequence
\* shares with others cannot slide.
EnableSlidingWindow(s, w) ==
  /\ Request(<<"window", s, w>>)
  /\ store[s].window = NoWindow
  /\ Changes(DOMAIN store, {s})
  /\ store'[s].tokens = store[s].tokens
  /\ store'[s].window = w[1]
  /\ store'[s].pinned \in w[2]..Max({w[2], Len(store[s].tokens)})

\* A forward appends its new tokens to the sequences of a batch, and then their
\* windows move.  It changes these sequences and no other.
Forward(batch) ==
  /\ Request(<<"forward", batch>>)
  /\ Changes(DOMAIN store, DOMAIN batch)
  /\ LET fresh == Fresh(batch)
     IN  \A s \in DOMAIN batch : store'[s] = Slide([store[s] EXCEPT !.tokens = @ \o fresh[s]])

Clear ==
  /\ Request(<<"clear">>)
  /\ store' = <<>>
  /\ failed' = FALSE

\* Any call may fail.
Fail ==
  /\ Request(call'.request)
  /\ store' = <<>>
  /\ failed' = TRUE

Next ==
  \/ Clear
  \/ ~failed /\ Fail
  \/ /\ ~failed
     /\ \/ \E s \in SeqIds : AddSequence(s)
        \/ \E s \in DOMAIN store :
             \/ RemoveSequence(s)
             \/ \E n \in 1..Len(store[s].tokens) : PopN(s, n)
             \/ \E w \in Windows : EnableSlidingWindow(s, w)
             \/ \E child \in SeqIds, fork_pos \in 0..Len(store[s].tokens) :
                  ForkSequence(s, child, fork_pos)
        \/ \E ids \in SUBSET DOMAIN store :
             /\ Cardinality(ids) \in 1..MaxBatch
             /\ \E batch \in [ids -> AppendLengths] : Forward(batch)

Spec == Init /\ [][Next]_vars
=============================================================================
