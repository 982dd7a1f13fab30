-------------------------- MODULE MCSnapshotCapture --------------------------
EXTENDS SnapshotCapture

\* Three versions of everything: the third is larger than a file may be.
MCSizeOf == <<1, 2, 9>>

\* A configuration without rules, one with a rule, one that also excludes the
\* sources.
MCPolicyOf ==
    <<[exclude |-> {}, enabled |-> TRUE, retain |-> {}, rules |-> TRUE],
      [exclude |-> {Src}, enabled |-> TRUE, retain |-> {}, rules |-> TRUE],
      [exclude |-> {}, enabled |-> TRUE, retain |-> {Doc}, rules |-> FALSE]>>

\* The rule cites a source file or the document.
MCDocumentOf == <<Src, Doc, Doc>>

MCTreeOf ==
    [c1 |-> [cfg |-> 1, rule |-> 1, src |-> 1, doc |-> 1],
     c2 |-> [cfg |-> 2, rule |-> 2, src |-> 2, doc |-> 0]]
\* Every selection and every policy source, most of their pairs.
MCAsked ==
    {<<"worktree", "local", FALSE>>, <<"worktree", "ref", FALSE>>,
     <<"staged", "active", FALSE>>, <<"staged", "local", FALSE>>,
     <<"diff", "local", TRUE>>, <<"diff", "ref", FALSE>>,
     <<"mr", "local", FALSE>>}
MCCommit == DOMAIN MCTreeOf
=============================================================================
