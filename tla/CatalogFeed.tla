---------------------------- MODULE CatalogFeed ----------------------------
(***************************************************************************)
(* What the list of running matches promises its readers, without leases,  *)
(* retries or caches that forget: the catalog is committed revision by     *)
(* revision, the stream moves from a revision to a later one, and so does  *)
(* every reader, who never sees what the stream had not taken over.        *)
(* CatalogOutbox.tla implements this.                                      *)
(***************************************************************************)
EXTENDS Integers

CONSTANT Readers

VARIABLES committed,    \* the revision the Lobby has committed
          published,    \* the revision the stream has taken over
          seen          \* what each reader shows; -1 before the first catalog

feedVars == <<committed, published, seen>>

FeedInit == committed = 0 /\ published = 0 /\ seen = [r \in Readers |-> -1]

CommitOne == committed' = committed + 1 /\ UNCHANGED <<published, seen>>

(* The stream takes over a later revision; readers may see it at once. *)
TakeOver == /\ published' \in (published + 1)..committed
            /\ UNCHANGED committed
            /\ \A r \in Readers : seen'[r] \in {seen[r], published'}
            /\ DOMAIN seen' = Readers

See(r) == /\ published > seen[r]
          /\ seen' = [seen EXCEPT ![r] = published]
          /\ UNCHANGED <<committed, published>>

FeedNext == CommitOne \/ TakeOver \/ \E r \in Readers : See(r)

FeedSpec == FeedInit /\ [][FeedNext]_feedVars
=============================================================================
