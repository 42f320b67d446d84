---------------------------- MODULE PagedKVCache ----------------------------
(***************************************************************************)
(* The paged attention KV cache of src/runtime/vm/paged_kv_cache.cc: the   *)
(* page table that stands between a sequence and the K/V data of its       *)
(* tokens.  A sequence is a path of blocks from a root to its last block;  *)
(* a block owns pages; sequences that were forked share the blocks of      *)
(* their common prefix, which are counted and never written again.  With a *)
(* sliding window a sequence gives up pages out of the middle of its last  *)
(* block.                                                                  *)
(*                                                                         *)
(* The object is not concurrent: `cache` holds its members, and each       *)
(* member function is an operator from a cache to a cache.  A failed CHECK *)
(* throws in the middle of a function and leaves the members as they are   *)
(* at that point; `error` remembers it.                                    *)
(*                                                                         *)
(* The windows are those of a cache made with support_sliding_window_.     *)
(* With support_layer_sliding_window_ alone a window is recorded and no    *)
(* page is given up: it then only limits what the kernels of some layers   *)
(* read, which the page table does not show.                               *)
(***************************************************************************)
EXTENDS Integers, SequencesExt, FiniteSetsExt, TLC

CONSTANTS
  SeqIds,                   \* the sequence ids clients use
  num_total_pages_,
  page_size_,
  support_sliding_window_,
  support_layer_sliding_window_,
  AppendLengths,            \* the append lengths of one forward
  Windows,                  \* the <<sliding_window_size, attn_sink_size>> asked for
  MaxBatch,                 \* the largest batch of one forward
  MaxTokens,                \* the largest number of a token
  Cautious                  \* clients keep to the safe uses of a sliding window

ASSUME KVAssumption ==
  /\ SeqIds \subseteq Nat
  /\ num_total_pages_ \in Nat
  /\ page_size_ \in Nat \ {0}
  /\ support_sliding_window_ \in BOOLEAN
  /\ support_layer_sliding_window_ \in BOOLEAN
  /\ AppendLengths \subseteq Nat
  /\ \A w \in Windows : w[2] >= 0 /\ w[1] > w[2]
  /\ Cautious \in BOOLEAN

VARIABLES
  cache,                    \* the members
  call                      \* an observation: the last call, see KVSequences

vars == <<cache, call>>

NoWindow == -1

\* global_block_pool_ is indexed from 1 here, so that 0 is the missing parent.
NoBlock == 0

kPagedKVCacheTempPageId == -1

Pages == 0..(num_total_pages_ - 1)

Slots == 0..(page_size_ - 1)

\* What a page holds where no sequence has its tokens.
Junk == -1

Block ==
  [page_ids |-> <<>>, seq_length |-> 0, start_pos |-> 0, sink_length |-> 0,
   sliding_window_offset |-> 0, parent_idx |-> NoBlock, external_ref_cnt |-> 0]

CeilDiv(a, b) == (a + b - 1) \div b
-----------------------------------------------------------------------------
(* The page table, read. *)

GetBlockTrace(c, last_block_idx) ==
  LET pool == c.global_block_pool_
      trace[b \in 0..Len(pool)] ==
        IF b = NoBlock THEN <<>> ELSE Append(trace[pool[b].parent_idx], b)
  IN  trace[last_block_idx]

\* The number of tokens in a block and in those above it.
LengthTo(c, block_idx) ==
  LET pool == c.global_block_pool_
      length[b \in 0..Len(pool)] ==
        IF b = NoBlock THEN 0 ELSE length[pool[b].parent_idx] + pool[b].seq_length
  IN  length[block_idx]

\* The number of tokens above a block.
LengthAbove(c, block_idx) == LengthTo(c, c.global_block_pool_[block_idx].parent_idx)

\* Where a block keeps its i-th token, counted from 0: the attention sink is at
\* the front, the window starts at sliding_window_offset.
OffsetInBlock(block, i) ==
  IF i < block.sink_length THEN i
  ELSE i - block.sink_length + block.sliding_window_offset

KVAt(c, block, offset) ==
  LET page == offset \div page_size_
  IN  IF page < Len(block.page_ids)
      THEN c.pages_[block.page_ids[page + 1]][offset % page_size_]
      ELSE Junk

\* The tokens of a sequence, as the page table leads to them.
Contents(c, s) ==
  LET pool == c.global_block_pool_
      Tokens(block) ==
        [i \in 1..block.seq_length |-> KVAt(c, block, OffsetInBlock(block, i - 1))]
      kv[b \in 0..Len(pool)] ==
        IF b = NoBlock THEN <<>> ELSE kv[pool[b].parent_idx] \o Tokens(pool[b])
  IN  kv[c.seq_map_[s].last_block_idx]

\* The tokens of s that no window lets go: its prefix blocks and the sink of its
\* last block.
Pinned(c, s) ==
  LET seq == c.seq_map_[s]
  IN  IF seq.sliding_window_size = NoWindow THEN 0
      ELSE LengthAbove(c, seq.last_block_idx) + seq.last_block_attn_sink_size

Seqs ==
  INSTANCE KVSequences WITH
    store <- IF cache.error # "none" THEN <<>>
             ELSE [s \in DOMAIN cache.seq_map_ |->
                     [tokens |-> Contents(cache, s),
                      window |-> cache.seq_map_[s].sliding_window_size,
                      pinned |-> Pinned(cache, s)]],
    failed <- cache.error # "none"
-----------------------------------------------------------------------------
(* Free pages and free blocks. *)

Throw(c, error) == [c EXCEPT !.error = error]

\* A failed check throws; nothing runs after it.
Check(c, condition, error) ==
  IF c.error = "none" /\ ~condition THEN Throw(c, error) ELSE c

\* Which free page or block is taken first makes no difference: the free lists are
\* kept in order, so that equal lists are equal states.
Release(free, ids) == SortSeq(free \o ids, LAMBDA a, b : a > b)

Then(c, Step(_)) == IF c.error = "none" THEN Step(c) ELSE c

\* Mutant: keeps the last page back.
GetFreePage_OffByOne(c) ==
  IF Len(c.free_page_ids_) <= 1 THEN Throw(c, "full")
  ELSE [c EXCEPT !.free_page_ids_ = Front(@)]

GetFreePage(c) ==
  IF c.free_page_ids_ = <<>> THEN Throw(c, "full")
  ELSE [c EXCEPT !.free_page_ids_ = Front(@)]

ReleasePages(c, page_ids) == [c EXCEPT !.free_page_ids_ = Release(@, page_ids)]

FreeBlockIdx(c) ==
  IF c.free_block_idx_ # <<>> THEN Last(c.free_block_idx_)
  ELSE Len(c.global_block_pool_) + 1

GetFreeBlock(c) ==
  IF c.free_block_idx_ # <<>>
  THEN [c EXCEPT !.free_block_idx_ = Front(@),
                 !.global_block_pool_[Last(c.free_block_idx_)] = Block]
  ELSE [c EXCEPT !.global_block_pool_ = Append(@, Block)]

\* The blocks, from the last of a sequence upwards, are given up with their pages.
\* A free block is reset here and not only when it is taken again: nothing reads it.
ReleaseBlocks(c, block_idxs) ==
  FoldLeft(LAMBDA d, b : [ReleasePages(d, d.global_block_pool_[b].page_ids)
                            EXCEPT !.free_block_idx_ = Release(@, <<b>>),
                                   !.global_block_pool_[b] = Block],
           c, block_idxs)

\* The constructor of Sequence: it counts itself in its last block.
NewSequence(c, s, block_idx) ==
  LET c1 == [c EXCEPT !.global_block_pool_[block_idx].external_ref_cnt = @ + 1]
      seq == [last_block_idx |-> block_idx,
              seq_length |-> LengthTo(c1, block_idx),
              sliding_window_size |-> NoWindow,
              last_block_attn_sink_size |-> 0]
  IN  [c1 EXCEPT !.seq_map_ = s :> seq @@ @]

Erase(c, s) == [c EXCEPT !.seq_map_ = [t \in DOMAIN @ \ {s} |-> @[t]]]
-----------------------------------------------------------------------------
(* Sequence management. *)

RemoveSeq(c, s) ==
  LET pool == c.global_block_pool_
      trace == GetBlockTrace(c, c.seq_map_[s].last_block_idx)
      \* The lowest block that something else refers to stays, and so do those above it.
      kept == Max({0} \cup {j \in DOMAIN trace : pool[trace[j]].external_ref_cnt # 1})
      c1 == Check(c, pool[Last(trace)].external_ref_cnt >= 1, "broken")
      c2 == ReleaseBlocks(c1, Reverse(SubSeq(trace, kept + 1, Len(trace))))
      c3 == IF kept = 0 THEN c2
            ELSE Then(Check(c2, pool[trace[kept]].external_ref_cnt > 1, "broken"),
                      LAMBDA d : [d EXCEPT !.global_block_pool_[trace[kept]].external_ref_cnt = @ - 1])
  IN  Then(c1, LAMBDA d : Then(c3, LAMBDA e : Erase(e, s)))

\* A fork at the very end of a sequence, on a page boundary, gives the parent a
\* new empty last block, so that it can go on without writing to the shared one.
ForksAtEnd(c, parent, fork_pos) ==
  LET seq == c.seq_map_[parent]
  IN  /\ fork_pos = seq.seq_length
      /\ fork_pos % page_size_ = 0
      /\ c.global_block_pool_[seq.last_block_idx].seq_length > 0

\* Mutant: the new block starts at 0.
ExtendParent_NoStart(c, parent) ==
  LET b == FreeBlockIdx(c)
  IN  [GetFreeBlock(c) EXCEPT
         !.global_block_pool_[b].parent_idx = c.seq_map_[parent].last_block_idx,
         !.global_block_pool_[b].external_ref_cnt = 1,
         !.seq_map_[parent].last_block_idx = b]

ExtendParent(c, parent) ==
  LET b == FreeBlockIdx(c)
      seq == c.seq_map_[parent]
  IN  [GetFreeBlock(c) EXCEPT
         !.global_block_pool_[b].start_pos = seq.seq_length,
         !.global_block_pool_[b].parent_idx = seq.last_block_idx,
         !.global_block_pool_[b].external_ref_cnt = 1,
         !.seq_map_[parent].last_block_idx = b]

\* Mutant: does not count the child in the block above.
LinkSibling_NoCount(c, child, forked) ==
  [c EXCEPT !.global_block_pool_[child].parent_idx = c.global_block_pool_[forked].parent_idx]

\* The child starts inside the first page of the forked block: it becomes a
\* sibling of that block.
LinkSibling(c, child, forked) ==
  LET above == c.global_block_pool_[forked].parent_idx
      c1 == [c EXCEPT !.global_block_pool_[child].parent_idx = above]
  IN  IF above = NoBlock THEN c1
      ELSE [c1 EXCEPT !.global_block_pool_[above].external_ref_cnt = @ + 1]

\* Mutant: takes any block for the last one.
ReduceSink_AnyBlock(c, parent, forked, moved_offset) ==
  LET seq == c.seq_map_[parent]
  IN  IF seq.sliding_window_size = NoWindow THEN c
      ELSE Then(Check(c, moved_offset <= seq.last_block_attn_sink_size, "broken"),
                LAMBDA d : [d EXCEPT !.seq_map_[parent].last_block_attn_sink_size = @ - moved_offset])

\* The sink of the last block counts from its start, which has moved.
ReduceSink(c, parent, forked, moved_offset) ==
  LET seq == c.seq_map_[parent]
  IN  IF seq.sliding_window_size = NoWindow \/ forked # seq.last_block_idx THEN c
      ELSE Then(Check(c, moved_offset <= seq.last_block_attn_sink_size, "broken"),
                LAMBDA d : [d EXCEPT !.seq_map_[parent].last_block_attn_sink_size = @ - moved_offset])

\* The child starts later in the forked block: the common leading pages move to
\* a new block above both.
SplitBlock(c, parent, child, forked, moved_offset) ==
  LET above == FreeBlockIdx(c)
      moved_pages == moved_offset \div page_size_
      old == c.global_block_pool_[forked]
      c1 == [GetFreeBlock(c) EXCEPT
               !.global_block_pool_[above] =
                  [Block EXCEPT !.parent_idx = old.parent_idx,
                                !.external_ref_cnt = 2,
                                !.page_ids = SubSeq(old.page_ids, 1, moved_pages),
                                !.start_pos = old.start_pos,
                                !.seq_length = moved_offset],
               !.global_block_pool_[forked].parent_idx = above,
               !.global_block_pool_[forked].page_ids =
                  SubSeq(@, moved_pages + 1, Len(@)),
               !.global_block_pool_[forked].start_pos = @ + moved_offset,
               !.global_block_pool_[forked].seq_length = @ - moved_offset,
               !.global_block_pool_[child].parent_idx = above]
  IN  ReduceSink(c1, parent, forked, moved_offset)

\* Mutant: forgets the tokens of the copied page.
PlaceChild_NoLength(c, child, fork_pos, in_page_offset) ==
  [c EXCEPT !.global_block_pool_[child].start_pos = fork_pos - in_page_offset]

PlaceChild(c, child, fork_pos, in_page_offset) ==
  [c EXCEPT !.global_block_pool_[child].start_pos = fork_pos - in_page_offset,
            !.global_block_pool_[child].seq_length = in_page_offset]

\* Mutant: takes the page and copies nothing.
CopySinglePage_NoCopy(c, child, forked, in_page_offset) ==
  Then(GetFreePage(c), LAMBDA d :
    [d EXCEPT !.global_block_pool_[child].page_ids = Append(@, Last(c.free_page_ids_))])

\* The child gets a page of its own with the first tokens of the shared one.
CopySinglePage(c, child, forked, in_page_offset) ==
  LET src == c.global_block_pool_[forked].page_ids[1]
      tgt == Last(c.free_page_ids_)
  IN  Then(GetFreePage(c), LAMBDA d :
        [d EXCEPT
           !.global_block_pool_[child].page_ids = Append(@, tgt),
           !.pages_[tgt] = [o \in Slots |-> IF o < in_page_offset THEN c.pages_[src][o] ELSE @[o]]])

\* Mutant: a fork may be anywhere.
ForkSinkSize_Anywhere(c, s) == c.seq_map_[s].seq_length

ForkSinkSize(c, s) ==
  LET seq == c.seq_map_[s]
  IN  seq.seq_length - c.global_block_pool_[seq.last_block_idx].seq_length
        + seq.last_block_attn_sink_size

ForkSeq(c, parent, child, fork_pos) ==
  LET c1 == IF ForksAtEnd(c, parent, fork_pos) THEN ExtendParent(c, parent) ELSE c
      b == FreeBlockIdx(c1)
      c2 == GetFreeBlock(c1)
      trace == GetBlockTrace(c2, c2.seq_map_[parent].last_block_idx)
      Len1(j) == c2.global_block_pool_[trace[j]].seq_length
      Before(j) == LengthAbove(c2, trace[j])
      \* The forked block: the first that reaches beyond fork_pos, or the last.
      k == Min({j \in DOMAIN trace : j = Len(trace) \/ Before(j) + Len1(j) > fork_pos})
      forked == trace[k]
      in_block_offset == fork_pos - Before(k)
      in_page_offset == in_block_offset % page_size_
      moved_offset == in_block_offset - in_page_offset
      c3 == Check(c2, \A j \in 1..Min({k, Len(trace) - 1}) :
                         Len1(j) > 0 /\ Len1(j) % page_size_ = 0, "broken")
      c4 == Then(c3, LAMBDA d : IF moved_offset = 0 THEN LinkSibling(d, b, forked)
                                ELSE SplitBlock(d, parent, b, forked, moved_offset))
      c5 == Then(c4, LAMBDA d : PlaceChild(d, b, fork_pos, in_page_offset))
      c6 == Then(c5, LAMBDA d : IF in_page_offset = 0 THEN d
                                ELSE CopySinglePage(d, b, forked, in_page_offset))
      refused == /\ c.seq_map_[parent].sliding_window_size # NoWindow
                 /\ fork_pos > ForkSinkSize(c, parent)
  IN  IF refused THEN Throw(c, "refused")
      ELSE Then(c6, LAMBDA d : NewSequence(d, child, b))

\* Mutant: the pages are dropped and not released.
ShrinkBlock_NoRelease(c, s, b, n) ==
  [c EXCEPT
     !.global_block_pool_[b].page_ids =
        SubSeq(@, 1, CeilDiv(c.global_block_pool_[b].seq_length - n, page_size_)),
     !.global_block_pool_[b].seq_length = @ - n,
     !.seq_map_[s].seq_length = @ - n]

\* Mutant: rounds the pages to keep down.
ShrinkBlock_RoundsDown(c, s, b, n) ==
  LET block == c.global_block_pool_[b]
      keep == (block.seq_length - n) \div page_size_
  IN  [ReleasePages(c, SubSeq(block.page_ids, keep + 1, Len(block.page_ids))) EXCEPT
         !.global_block_pool_[b].page_ids = SubSeq(@, 1, keep),
         !.global_block_pool_[b].seq_length = @ - n,
         !.seq_map_[s].seq_length = @ - n]

\* Drops n tokens from a block that only the sequence uses.
ShrinkBlock(c, s, b, n) ==
  LET block == c.global_block_pool_[b]
      tgt_npage == CeilDiv(block.seq_length - n, page_size_)
      keep == Min({tgt_npage, Len(block.page_ids)})
      dropped == Reverse(SubSeq(block.page_ids, keep + 1, Len(block.page_ids)))
  IN  [ReleasePages(c, dropped) EXCEPT
         !.global_block_pool_[b].page_ids = SubSeq(@, 1, keep),
         !.global_block_pool_[b].seq_length = @ - n,
         !.seq_map_[s].seq_length = @ - n]

\* Mutant: the temporary id stays.
PopByFork_KeepsTemp(c, s, n) ==
  LET temp == -1 - s
  IN  Then(ForkSeq(c, s, temp, c.seq_map_[s].seq_length - n), LAMBDA d :
        Then(RemoveSeq(d, s), LAMBDA e :
          [e EXCEPT !.seq_map_ = s :> e.seq_map_[temp] @@ @]))

\* Drops n tokens that reach into a shared block: the sequence is forked before
\* them under a temporary id, removed, and the fork takes its place.
PopByFork(c, s, n) ==
  LET temp == -1 - s
  IN  Then(ForkSeq(c, s, temp, c.seq_map_[s].seq_length - n), LAMBDA d :
        Then(RemoveSeq(d, s), LAMBDA e :
          Erase([e EXCEPT !.seq_map_ = s :> e.seq_map_[temp] @@ @], temp)))

PopTokens(c, s, n) ==
  LET pool == c.global_block_pool_
      trace == GetBlockTrace(c, c.seq_map_[s].last_block_idx)
      Below(j) == LengthTo(c, Last(trace)) - LengthTo(c, trace[j])
      \* Blocks of the sequence alone go as a whole while more is to be popped
      \* than they hold.
      k == Max({j \in DOMAIN trace :
                  \/ pool[trace[j]].external_ref_cnt # 1
                  \/ n - Below(j) <= pool[trace[j]].seq_length})
      c1 == [ReleaseBlocks(c, Reverse(SubSeq(trace, k + 1, Len(trace)))) EXCEPT
               !.seq_map_[s].last_block_idx = trace[k],
               !.seq_map_[s].seq_length = @ - Below(k)]
  IN  IF n = 0 THEN c
      ELSE Then(Check(c, pool[Last(trace)].external_ref_cnt >= 1, "broken"), LAMBDA d :
             IF pool[trace[k]].external_ref_cnt = 1
             THEN ShrinkBlock(c1, s, trace[k], n - Below(k))
             ELSE PopByFork(c1, s, n - Below(k)))
-----------------------------------------------------------------------------
(* Appending, and the sliding window. *)

EnableWindow(c, s, sliding_window_size, attn_sink_size) ==
  LET seq == c.seq_map_[s]
      prefix_length == seq.seq_length - c.global_block_pool_[seq.last_block_idx].seq_length
  IN  Then(Check(c, prefix_length >= 0, "broken"), LAMBDA d :
        [d EXCEPT
           !.seq_map_[s].last_block_attn_sink_size = Max({attn_sink_size - prefix_length, 0}),
           !.seq_map_[s].sliding_window_size = sliding_window_size])

Slides(c, s) == c.seq_map_[s].sliding_window_size # NoWindow /\ support_sliding_window_

\* The window moves on: the tokens that fall out of it go, and with them the
\* pages between the sink and the window that are left with none.
SlideWindowForSequence(c, s) ==
  LET seq == c.seq_map_[s]
      b == seq.last_block_idx
      old == c.global_block_pool_[b]
      length_to_slide == seq.seq_length - seq.sliding_window_size
      first == seq.last_block_attn_sink_size > 0 /\ old.sink_length = 0
      sink == IF first THEN seq.last_block_attn_sink_size ELSE old.sink_length
      start == length_to_slide
                 + (IF first THEN seq.last_block_attn_sink_size ELSE old.sliding_window_offset)
      num_sink_pages == CeilDiv(sink, page_size_)
      n == Max({start \div page_size_ - num_sink_pages, 0})
      slidden == SelectSeq(SubSeq(old.page_ids, num_sink_pages + 1, num_sink_pages + n),
                           LAMBDA p : p # kPagedKVCacheTempPageId)
      page_idx == start \div page_size_ - n
      new == [old EXCEPT
                !.sink_length = sink,
                !.sliding_window_offset = page_idx * page_size_ + (start % page_size_),
                !.seq_length = @ - length_to_slide,
                !.page_ids = SubSeq(@, 1, num_sink_pages)
                               \o SubSeq(@, num_sink_pages + n + 1, Len(@))]
      c1 == Check(c, first => old.sliding_window_offset = 0, "broken")
      c2 == Check(ReleasePages(c1, slidden),
                  page_idx \in {num_sink_pages - 1, num_sink_pages}, "broken")
      c3 == [c2 EXCEPT !.global_block_pool_[b] = new,
                       !.seq_map_[s].seq_length = seq.sliding_window_size]
      inUse == new.sliding_window_offset + new.seq_length - new.sink_length
  IN  IF ~Slides(c, s) \/ seq.seq_length <= seq.sliding_window_size THEN c
      ELSE Check(Then(c2, LAMBDA d : c3),
                 /\ new.seq_length >= new.sink_length
                 /\ new.sliding_window_offset >= new.sink_length
                 /\ CeilDiv(inUse, page_size_) = Len(new.page_ids),
                 "broken")

\* Mutant: borrows nothing.
ReservePage_NoBorrow(c, s, b) ==
  Then(GetFreePage(c), LAMBDA d :
    [d EXCEPT !.global_block_pool_[b].page_ids = Append(@, Last(c.free_page_ids_))])

\* One more page for the block.  When none is free, a sequence that slides borrows
\* a temporary one, in the hope that sliding releases a page for it.
ReservePage(c, s, b) ==
  IF c.free_page_ids_ = <<>> /\ Slides(c, s)
  THEN [c EXCEPT !.global_block_pool_[b].page_ids = Append(@, kPagedKVCacheTempPageId)]
  ELSE Then(GetFreePage(c), LAMBDA d :
         [d EXCEPT !.global_block_pool_[b].page_ids = Append(@, Last(c.free_page_ids_))])

\* Pages released by sliding take the place of the temporary ones.
ReplaceTempPages(c, b) ==
  FoldLeft(LAMBDA d, i :
             IF d.global_block_pool_[b].page_ids[i] # kPagedKVCacheTempPageId THEN d
             ELSE Then(d, LAMBDA e : Then(GetFreePage(e), LAMBDA f :
                    [f EXCEPT !.global_block_pool_[b].page_ids[i] = Last(e.free_page_ids_)])),
           c, [i \in DOMAIN c.global_block_pool_[b].page_ids |-> i])

ReserveAppendLengthInSeq(c, s, append_length) ==
  LET b == c.seq_map_[s].last_block_idx
      block == c.global_block_pool_[b]
      tgt_npage == CeilDiv(block.seq_length - block.sink_length + block.sliding_window_offset
                             + append_length, page_size_)
      c1 == Check(c, append_length > 0, "refused")
      c2 == Check(c1, block.external_ref_cnt = 1, "broken")
      c3 == FoldLeft(LAMBDA d, i : Then(d, LAMBDA e : ReservePage(e, s, b)),
                     c2, [i \in 1..(tgt_npage - Len(block.page_ids)) |-> i])
      c4 == Then(c3, LAMBDA d :
              [d EXCEPT !.global_block_pool_[b].seq_length = @ + append_length])
      c5 == Then(c4, LAMBDA d : SlideWindowForSequence(d, s))
  IN  Then(c5, LAMBDA d : ReplaceTempPages(d, b))

\* append_position_map_host_: where the new tokens of s go.  len is the length of
\* its last block before the append.  A token that the window lets go at once has
\* no place.
NoSlot == <<kPagedKVCacheTempPageId, 0>>

AppendPositions(c, s, append_length, len) ==
  LET block == c.global_block_pool_[c.seq_map_[s].last_block_idx]
      At(offset) == <<block.page_ids[offset \div page_size_ + 1], offset % page_size_>>
      pos_in_block(pos) == block.seq_length - append_length + pos
  IN  [k \in 1..append_length |->
         CASE len + k - 1 < block.sink_length -> At(len + k - 1)
           [] len + k - 1 >= block.sink_length /\ pos_in_block(k - 1) < block.sink_length -> NoSlot
           [] OTHER -> At(pos_in_block(k - 1) - block.sink_length + block.sliding_window_offset)]

\* AttentionWithFusedQKV hands the K/V of the new tokens and their positions to
\* f_transpose_append_mha_, for every layer.
AppendKV(c, positions, tokens) ==
  FoldLeft(LAMBDA d, k :
             IF positions[k] = NoSlot THEN d
             ELSE [d EXCEPT !.pages_[positions[k][1]][positions[k][2]] = tokens[k]],
           c, [k \in DOMAIN positions |-> k])

\* One forward: BeginForward, the attention of the layers, EndForward.  A batch is a
\* list of [id, n]: n tokens are appended to the sequence id, and kv[id] is their data.
ForwardBatch(c, batch, kv) ==
  LET c1 == FoldLeft(LAMBDA d, e : [d EXCEPT !.seq_map_[e.id].seq_length = @ + e.n], c, batch)
      c2 == FoldLeft(LAMBDA d, e : Then(d, LAMBDA f : ReserveAppendLengthInSeq(f, e.id, e.n)),
                     c1, batch)
      LastBlock(s) == c.global_block_pool_[c.seq_map_[s].last_block_idx]
  IN  Then(c2, LAMBDA d :
        FoldLeft(LAMBDA f, e :
                   AppendKV(f, AppendPositions(f, e.id, e.n, LastBlock(e.id).seq_length), kv[e.id]),
                 d, batch))
-----------------------------------------------------------------------------
(* The calls of a client. *)

Cleared ==
  [seq_map_ |-> <<>>,
   free_page_ids_ |-> [i \in 1..num_total_pages_ |-> num_total_pages_ - i],
   global_block_pool_ |-> <<>>,
   free_block_idx_ |-> <<>>,
   pages_ |-> [p \in Pages |-> [o \in Slots |-> Junk]],
   error |-> "none"]

Init ==
  /\ cache = Cleared
  /\ call = [request |-> <<"clear">>, odd |-> FALSE]

Live == DOMAIN cache.seq_map_

LastBlockOf(s) == cache.global_block_pool_[cache.seq_map_[s].last_block_idx]

PrefixLength(s) == cache.seq_map_[s].seq_length - LastBlockOf(s).seq_length

HasSlid(s) == LastBlockOf(s).sink_length > 0 \/ LastBlockOf(s).sliding_window_offset > 0

HasWindow(s) == cache.seq_map_[s].sliding_window_size # NoWindow

\* The uses of a sequence with a window that the page table copes with.
ForkIsSafe(s, fork_pos) ==
  HasWindow(s) => /\ ~ForksAtEnd(cache, s, fork_pos)
                  /\ HasSlid(s) => fork_pos - PrefixLength(s) < page_size_

PopIsSafe(s, n) == HasWindow(s) => ~HasSlid(s) /\ n <= LastBlockOf(s).seq_length

WindowIsSafe(s, w) == PrefixLength(s) < w[1]

\* A released page keeps its data, and so does a slot whose token was popped.  Nothing
\* may read them before they are written again, so they hold Junk.
Scrub(c) ==
  LET At(block) == {OffsetInBlock(block, i) : i \in 0..(block.seq_length - 1)}
      Used == UNION {LET block == c.global_block_pool_[b]
                     IN  {<<block.page_ids[o \div page_size_ + 1], o % page_size_>> :
                            o \in {x \in At(block) : x \div page_size_ < Len(block.page_ids)}} :
                       b \in DOMAIN c.global_block_pool_}
  IN  [c EXCEPT !.pages_ = [p \in Pages |-> [o \in Slots |->
                              IF <<p, o>> \in Used THEN @[p][o] ELSE Junk]]]

\* The members after a call.  A client does not go on with a cache that has thrown.
Calls(request, c) ==
  /\ cache.error = "none"
  /\ cache' = Scrub(c)
  /\ Seqs!Request(request)

Clear ==
  /\ cache' = Cleared
  /\ Seqs!Request(<<"clear">>)

AddSequence(s) ==
  /\ s \notin Live
  /\ Calls(<<"add", s>>, NewSequence(GetFreeBlock(cache), s, FreeBlockIdx(cache)))

RemoveSequence(s) == Calls(<<"remove", s>>, RemoveSeq(cache, s))

ForkSequence(s, child) ==
  /\ child \notin Live
  /\ \E fork_pos \in 0..cache.seq_map_[s].seq_length :
       /\ HasWindow(s) => fork_pos <= ForkSinkSize(cache, s)
       /\ Cautious => ForkIsSafe(s, fork_pos)
       /\ Calls(<<"fork", s, child, fork_pos>>, ForkSeq(cache, s, child, fork_pos))

PopN(s) ==
  \E n \in 1..cache.seq_map_[s].seq_length :
    /\ Cautious => PopIsSafe(s, n)
    /\ Calls(<<"pop", s, n>>, PopTokens(cache, s, n))

EnableSlidingWindowForSeq(s) ==
  /\ support_sliding_window_ \/ support_layer_sliding_window_
  /\ ~HasWindow(s)
  /\ \E w \in Windows :
       /\ Cautious => WindowIsSafe(s, w)
       /\ Calls(<<"window", s, w>>, EnableWindow(cache, s, w[1], w[2]))

\* Sequence ids are interchangeable: a batch lists its sequences by id.
Batches ==
  {batch \in BoundedSeq([id : Live, n : AppendLengths], MaxBatch) :
     /\ batch # <<>>
     /\ \A i, j \in DOMAIN batch : i < j => batch[i].id < batch[j].id}

Lengths(batch) ==
  [s \in {batch[i].id : i \in DOMAIN batch} |-> (CHOOSE e \in ToSet(batch) : e.id = s).n]

Forward(batch) ==
  Calls(<<"forward", Lengths(batch)>>, ForwardBatch(cache, batch, Seqs!Fresh(Lengths(batch))))

Next ==
  \/ Clear
  \/ \E s \in SeqIds : AddSequence(s)
  \/ \E s \in Live :
       \/ RemoveSequence(s)
       \/ PopN(s)
       \/ EnableSlidingWindowForSeq(s)
       \/ \E child \in SeqIds : ForkSequence(s, child)
  \/ \E batch \in Batches : Forward(batch)

Spec == Init /\ [][Next]_vars
-----------------------------------------------------------------------------
(* Properties. *)

Pool == cache.global_block_pool_

InUse == DOMAIN Pool \ ToSet(cache.free_block_idx_)

\* The members have their types.
TypeOK ==
  /\ Live \subseteq SeqIds
  /\ \A s \in Live : /\ cache.seq_map_[s].last_block_idx \in DOMAIN Pool
                     /\ cache.seq_map_[s].seq_length \in Nat
  /\ ToSet(cache.free_page_ids_) \subseteq Pages
  /\ ToSet(cache.free_block_idx_) \subseteq DOMAIN Pool
  /\ \A b \in DOMAIN Pool : Pool[b].parent_idx \in {NoBlock} \cup DOMAIN Pool
  /\ cache.pages_ \in [Pages -> [Slots -> {Junk} \cup 1..MaxTokens]]
  /\ cache.error \in {"none", "full", "refused", "broken"}

Count(q, x) == Cardinality({i \in DOMAIN q : q[i] = x})

\* Every page is in one place: once in the free list, or once in the one block that
\* owns it ("different blocks do not share pages").  No call loses a page or hands
\* one out twice, and no block is left with a page that was only borrowed.
PagesOwnedOnce ==
  cache.error = "none" =>
    /\ \A p \in Pages :
         Count(cache.free_page_ids_, p)
           + FoldLeft(LAMBDA n, block : n + Count(block.page_ids, p), 0, Pool) = 1
    /\ \A b \in DOMAIN Pool : ToSet(Pool[b].page_ids) \subseteq Pages

\* external_ref_cnt counts the sequences that end in a block and the blocks below it,
\* so RemoveSequence and PopN release a block with its last user and not before.  The
\* last block of a sequence has no other user: the sequence may write to it.
RefCounts ==
  cache.error = "none" =>
    /\ \A b \in InUse :
         /\ Pool[b].external_ref_cnt =
              Cardinality({s \in Live : cache.seq_map_[s].last_block_idx = b})
                + Cardinality({x \in InUse : Pool[x].parent_idx = b})
         /\ Pool[b].external_ref_cnt > 0
         /\ Pool[b].parent_idx # NoBlock => Pool[b].parent_idx \in InUse
    /\ \A s \in Live : LastBlockOf(s).external_ref_cnt = 1
    /\ \A b \in DOMAIN Pool : Count(cache.free_block_idx_, b) <= 1

\* A block has exactly the pages its sink and its window reach into, and a block that
\* others continue consists of full pages, so that ForkSequence can cut it anywhere
\* and the kernels see no gap between two blocks.
BlockShape ==
  cache.error = "none" =>
    \A b \in InUse :
      LET block == Pool[b]
      IN  /\ Len(block.page_ids) =
               CeilDiv(block.seq_length - block.sink_length + block.sliding_window_offset, page_size_)
          /\ (\E x \in InUse : Pool[x].parent_idx = b) =>
               /\ block.seq_length > 0
               /\ block.seq_length % page_size_ = 0
               /\ block.sink_length = 0 /\ block.sliding_window_offset = 0

\* A block starts where the blocks above it end, whatever forks and pops cut its
\* sequences into: start_pos is the position RoPE is computed from.
StartPositions ==
  cache.error = "none" =>
    \A b \in InUse : Pool[b].start_pos = LengthAbove(cache, b)

\* The assertions of the page table hold: no ICHECK fails, nor one of the CHECKs on the
\* blocks that no argument of a client could make fail.
InternalChecksHold == cache.error # "broken"

\* A client that sees enough free pages for the tokens it appends (a started page each,
\* GetNumAvailablePages) is never told that the cache is full.
EnoughPagesNeverFull ==
  cache.error = "none" =>
    \A batch \in Batches :
      FoldLeft(LAMBDA n, e : n + CeilDiv(e.n, page_size_), 0, batch) <= Len(cache.free_page_ids_)
        => ForwardBatch(cache, batch, Seqs!Fresh(Lengths(batch))).error # "full"

\* The most pages the last block of s needs for its sink and its window, wherever in
\* a page the window starts.
WindowPages(s) ==
  LET sink == cache.seq_map_[s].last_block_attn_sink_size
      window == cache.seq_map_[s].sliding_window_size - PrefixLength(s) - sink
  IN  CeilDiv(sink, page_size_) + CeilDiv(window + page_size_ - 1, page_size_)

\* A sequence with a window that holds, with the free pages, what its window needs goes
\* on for ever: the pages ReserveAppendLengthInSeq borrows while none is free are made
\* good by those the slide releases, however long the append.
WindowNeverStarves ==
  cache.error = "none" =>
    \A batch \in Batches :
      LET s == batch[1].id
      IN  /\ Len(batch) = 1
          /\ Slides(cache, s)
          /\ WindowPages(s) <= Len(LastBlockOf(s).page_ids) + Len(cache.free_page_ids_)
          => ForwardBatch(cache, batch, Seqs!Fresh(Lengths(batch))).error # "full"

\* The page table implements sequences of tokens: a fork has exactly the tokens before
\* its position, a pop drops exactly the last n, a forward appends its tokens in order,
\* and no call on some sequences changes what another one holds.
ImplementsSequences == Seqs!Spec

\* The comment on Sequence::seq_length: "It is the sum of lengths of all its blocks."
SeqLengthIsSum ==
  \A s \in Live : cache.seq_map_[s].seq_length =
                    LengthTo(cache, cache.seq_map_[s].last_block_idx)

\* The comment on KVStateObj::PopN: "Pop out the trailing `n` tokens from the KV cache
\* for the specified sequence."
PopsTrailingTokens ==
  [][\A s \in Live : PopN(s) => cache'.error # "none"
                                  \/ IsPrefix(Contents(cache', s), Contents(cache, s))]_vars
=============================================================================
