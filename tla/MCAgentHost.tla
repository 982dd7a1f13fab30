---------------------------- MODULE MCAgentHost ----------------------------
\* AgentHost with a source that has two defects, one that has one, a fixed one,
\* one that passes without the evidence an obligation asks for, and one the
\* checks cannot judge.
EXTENDS AgentHost

MCVerdict == [two |-> "fail", one |-> "fail", fixed |-> "pass", bare |-> "pass",
              broken |-> "incomplete"]
MCDebt == [two |-> {"x", "y"}, one |-> {"x"}, fixed |-> {}, bare |-> {}, broken |-> {"z"}]
MCVerified == [c \in DOMAIN MCVerdict |-> c # "bare"]

\* Another executable projects the contract of a tree that passes, of one that
\* does not, or of a changed task with its obligations' source not as adopted.
MCClaims == {[code |-> "fixed", task |-> "t", adopted |-> TRUE],
             [code |-> "one", task |-> "t", adopted |-> TRUE],
             [code |-> "bare", task |-> "u", adopted |-> FALSE]}
=============================================================================
