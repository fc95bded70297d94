---------------------------- MODULE ChunkCustody ----------------------------
(***************************************************************************)
(* What the edge-to-central transfer promises, without files, journals,    *)
(* ACKs or crashes: a chunk that was offered is held by the edge until it  *)
(* is durable at central, and a day is released to the readers of the raw  *)
(* root only when everything its frozen inventory lists is durable there.  *)
(***************************************************************************)
CONSTANTS Chunk, Day

VARIABLES
  offered,   \* chunks the edge has published
  held,      \* published chunks whose data the edge still has
  durable,   \* chunks central has for good
  frozen,    \* days whose inventory is final
  lists,     \* that inventory
  released   \* days central has made visible

custodyVars == <<offered, held, durable, frozen, lists, released>>

Init ==
  /\ offered = {}
  /\ held = {}
  /\ durable = {}
  /\ frozen = {}
  /\ lists = [d \in Day |-> {}]
  /\ released = {}

Offer(c) ==
  /\ c \notin offered
  /\ offered' = offered \cup {c}
  /\ held' = held \cup {c}
  /\ UNCHANGED <<durable, frozen, lists, released>>

\* A gap artifact may be published a second time after a crash.
OfferAgain(c) ==
  /\ c \in offered \ held
  /\ held' = held \cup {c}
  /\ UNCHANGED <<offered, durable, frozen, lists, released>>

Copy(c) ==
  /\ c \in offered \ durable
  /\ durable' = durable \cup {c}
  /\ UNCHANGED <<offered, held, frozen, lists, released>>

Drop(c) ==
  /\ c \in held \cap durable
  /\ held' = held \ {c}
  /\ UNCHANGED <<offered, durable, frozen, lists, released>>

Freeze(d, list) ==
  /\ d \notin frozen
  /\ list \subseteq offered
  /\ frozen' = frozen \cup {d}
  /\ lists' = [lists EXCEPT ![d] = list]
  /\ UNCHANGED <<offered, held, durable, released>>

Release(d) ==
  /\ d \in frozen \ released
  /\ lists[d] \subseteq durable
  /\ released' = released \cup {d}
  /\ UNCHANGED <<offered, held, durable, frozen, lists>>

Next ==
  \/ \E c \in Chunk : Offer(c) \/ OfferAgain(c) \/ Copy(c) \/ Drop(c)
  \/ \E d \in Day : Release(d)
  \/ \E d \in Day, list \in SUBSET Chunk : Freeze(d, list)

Spec == Init /\ [][Next]_custodyVars

\* Nothing stays with the edge for ever, and every frozen day is released once
\* central can.
LiveSpec ==
  /\ Spec
  /\ \A c \in Chunk : WF_custodyVars(Copy(c)) /\ WF_custodyVars(Drop(c))
  /\ \A d \in Day : WF_custodyVars(Release(d))

=============================================================================
