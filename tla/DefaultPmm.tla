---------------------------- MODULE DefaultPmm ----------------------------
(* The first-fit allocator of physical memory (kern/mm/default_pmm.c): a    *)
(* list of all free frames by address, in which the first frame of a block  *)
(* of adjacent ones has the size of the block as its property.             *)
EXTENDS Naturals, SequencesExt

CONSTANTS NFrame         \* how many frames are free after boot, in one block

ASSUME FrameAssumption == NFrame \in Nat \ {0}

Frame == 1..NFrame

Area == [list : Seq(Frame), property : [Frame -> Nat], nr_free : Nat]

\* After page_init: default_init, and default_free_pages of one block of frames.
AreaInit ==
  [list |-> [i \in Frame |-> i],
   property |-> [f \in Frame |-> IF f = 1 THEN NFrame ELSE 0],
   nr_free |-> NFrame]

LeastOf(s) == CHOOSE i \in s : \A j \in s : i <= j
GreatestOf(s) == CHOOSE i \in s : \A j \in s : j <= i

\* default_alloc_pages finds the first frame whose property is n or more ...
Fits(a, n) == {i \in DOMAIN a.list : a.property[a.list[i]] >= n}
CanAlloc(a, n) == n <= a.nr_free /\ Fits(a, n) # {}
Found(a, n) == LeastOf(Fits(a, n))

\* ... takes the n entries from there on out of the list, and makes the next
\* one the first of what is left of the block.
Rest(a, n) ==
  LET i == Found(a, n)
      rest == a.property[a.list[i]] - n
  IN IF rest > 0 THEN [a.property EXCEPT ![a.list[i + n]] = rest] ELSE a.property

AllocPages(a, n) ==
  LET i == Found(a, n)
  IN [base |-> a.list[i],
      area |-> [list |-> SubSeq(a.list, 1, i - 1) \o SubSeq(a.list, i + n, Len(a.list)),
                property |-> Rest(a, n),
                nr_free |-> a.nr_free - n]]

\* default_free_pages: the frames go into the list before the first greater
\* one, and form a block ...
Slot(a, base) == LeastOf({j \in DOMAIN a.list : a.list[j] > base} \cup {Len(a.list) + 1})

Inserted(a, base, n) == [f \in Frame |->
  IF f = base THEN n ELSE IF f \in base..base + n - 1 THEN 0 ELSE a.property[f]]

\* ... which is merged with the block behind it ...
MergedNext(p, base, n, next) ==
  IF base + n = next THEN [p EXCEPT ![base] = @ + p[next], ![next] = 0] ELSE p

\* ... and with the one before it, whose first frame is found going backwards.
MergedAt(p, base, headers) ==
  IF headers = {} THEN p
  ELSE [p EXCEPT ![GreatestOf(headers)] = @ + p[base], ![base] = 0]
MergedNever(p, base, before) == p              \* a mutant: not merged backwards
MergedPrev(p, base, before) ==
  IF base - 1 \in before THEN MergedAt(p, base, {f \in before : p[f] > 0}) ELSE p

FreePages(a, base, n) ==
  LET i == Slot(a, base)
      before == {a.list[j] : j \in 1..i - 1}
      p == Inserted(a, base, n)
      q == IF i <= Len(a.list) THEN MergedNext(p, base, n, a.list[i]) ELSE p
  IN [list |-> SubSeq(a.list, 1, i - 1) \o [x \in 1..n |-> base + x - 1]
               \o SubSeq(a.list, i, Len(a.list)),
      property |-> MergedPrev(q, base, before),
      nr_free |-> a.nr_free + n]

\* A sequence of calls of alloc_page; "got" are the frames, fewer if they run out.
OneMore(s) ==
  IF ~CanAlloc(s.area, 1) THEN s
  ELSE LET r == AllocPages(s.area, 1)
       IN [area |-> r.area, got |-> Append(s.got, r.base)]
AllocEach(a, n) ==
  LET s[k \in 0..n] == IF k = 0 THEN [area |-> a, got |-> <<>>] ELSE OneMore(s[k - 1])
  IN  s[n]

FreeEach(a, fs) ==
  LET b[k \in 0..Len(fs)] == IF k = 0 THEN a ELSE FreePages(b[k - 1], fs[k], 1)
  IN  b[Len(fs)]

=============================================================================
