--------------------------- MODULE MCIndexWriter ---------------------------
EXTENDS IndexWriter, FiniteSetsExt

\* The system without loss of power, which the code does not promise to
\* survive unharmed (comment in FsyncHandle).
ProcessNext ==
  \/ Step \/ Crash
  \/ \E d \in Doc : CrashInAppend(d)
ProcessSpec == Init /\ [][ProcessNext]_vars

\* Copies of d in a published reader.
Copies(segs, d) ==
  MapThenSumSet(LAMBDA s : segs[s][<<d, "full">>] + segs[s][<<d, "text">>],
                DOMAIN segs)

\* A document added once is found at most once, as the crash recovery test
\* counts its five documents after a restart.
ExactlyOnce == \A d \in Doc : Copies(published, d) <= adds[d]

\* Every acked document can be recovered, whatever the log looked like when
\* it was added.
AckedNeverLost ==
  \A d \in acked : \A m \in durable :
    \/ d \in DocsOfManifest(m)
    \/ \E i \in Readable(log) : log[i].doc = d
    \/ Up /\ d \in Docs(mutable) \cup DocsOfSegs(sealed)
=============================================================================
