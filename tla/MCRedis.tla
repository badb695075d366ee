------------------------------- MODULE MCRedis -------------------------------
(***************************************************************************)
(* Up to four entries, without events, with two, or unparsable, read two   *)
(* at a time.                                                              *)
(***************************************************************************)
EXTENDS RedisStreams

MCEntries == {0, 2, Bad}

MCStartIds == {0, Latest}
=============================================================================
