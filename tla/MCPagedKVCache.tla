--------------------------- MODULE MCPagedKVCache ---------------------------
(* Instances of the paged KV cache for TLC. *)
EXTENDS PagedKVCache

\* <<sliding_window_size, attn_sink_size>>: a sink of part of a page.
SmallWindows == {<<4, 1>>}

\* A sink of more than a page, which leaves the window one token.
DeepSink == {<<4, 3>>}

\* A sink of more than one page of two tokens, whose pages a fork can split.
LongSink == {<<5, 3>>}

\* States that differ only in which block, which page or which token number plays
\* which part behave alike.  The view names blocks, pages and tokens by where the
\* sequences, taken in order, meet them, and leaves the free ones out.  It also leaves
\* out the observation `call`, which no call and no invariant reads.  A cache that has
\* thrown is seen as it is.
Place(q, x) == CHOOSE i \in 0..Len(q) : IF i = 0 THEN x \notin ToSet(q) ELSE q[i] = x

View ==
  LET pool == cache.global_block_pool_
      ids == SelectSeq([i \in 1..(Max(SeqIds) + 1) |-> i - 1], LAMBDA s : s \in Live)
      traces == FlattenSeq([i \in DOMAIN ids |->
                  GetBlockTrace(cache, cache.seq_map_[ids[i]].last_block_idx)])
      others == SelectSeq([b \in DOMAIN pool |-> b],
                          LAMBDA b : b \notin ToSet(traces) \cup ToSet(cache.free_block_idx_))
      blocks == traces \o others
      pages == FlattenSeq([i \in DOMAIN blocks |-> pool[blocks[i]].page_ids])
      kv == FlattenSeq([i \in DOMAIN pages |->
                          [o \in 1..page_size_ |-> cache.pages_[pages[i]][o - 1]]])
  IN  IF cache.error # "none" THEN <<cache>>
      ELSE <<[s \in Live |-> [cache.seq_map_[s] EXCEPT !.last_block_idx = Place(blocks, @)]],
             [i \in DOMAIN blocks |->
                [pool[blocks[i]] EXCEPT
                   !.parent_idx = Place(blocks, @),
                   !.page_ids = [j \in DOMAIN @ |-> Place(pages, @[j])]]],
             [i \in DOMAIN kv |-> IF kv[i] = Junk THEN Junk ELSE Place(kv, kv[i])],
             Len(cache.free_page_ids_)>>
=============================================================================
