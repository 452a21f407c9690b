------------------------------ MODULE Informer ------------------------------
(***************************************************************************)
(* The manager's cached client (controller-runtime), modelled from how the *)
(* reconcilers use it: r.Get and r.List answer from an informer's cache,   *)
(* r.Create and r.Status().Patch go to the API server.                     *)
(*                                                                         *)
(* A kind watched by one informer is a STREAM: the non-empty sequence of   *)
(* the versions the cache has not passed yet.  Its head is what the cache  *)
(* shows, its last element is what the API server stores.  The parameter   *)
(* lag bounds the length: lag = 1 is a cache that is never stale, and a    *)
(* cache of lag k misses at most the last k - 1 writes.                    *)
(***************************************************************************)
EXTENDS Naturals, Sequences

\* Streams of versions from S that a cache of the given lag can be reading.
Streams(S, lag) == {s \in Seq(S) : Len(s) \in 1..lag}

\* The version a cached Get or List returns.
Cached(s) == s[1]

\* The version the API server stores.
Stored(s) == s[Len(s)]

\* The stream right after the informer (re-)listed version v.
Listed(v) == <<v>>

\* The API server stores v.  A write that changes nothing makes no new version
\* and no watch event; a cache that is lag - 1 writes behind catches up by one.
Write(s, v, lag) ==
    IF v = Stored(s) THEN s
    ELSE Append(IF Len(s) < lag THEN s ELSE Tail(s), v)

\* A watch event is pending; handling it moves the cache to the next version.
Stale(s) == Len(s) > 1
Deliver(s) == Tail(s)
=============================================================================
