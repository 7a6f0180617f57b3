---------------------------- MODULE MC_SystemData ----------------------------
EXTENDS SystemData

\* replicate arguments: a float that int() truncates to 1 (so all-"1.5" is
\* the no-op, and "1" itself would reach no other state), a factor that
\* replicates, and one the positivity check rejects
MCReplArgs == {"1.5", "2", "0"}
MCPyInt == [a \in MCReplArgs |->
              CASE a = "2" -> 2 [] a = "0" -> 0 [] a = "1.5" -> 1]
MCBox0 == <<1, 1, 1>>
=============================================================================
