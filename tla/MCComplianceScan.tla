-------------------------- MODULE MCComplianceScan --------------------------
EXTENDS ComplianceScan, TLC

CONSTANTS a, b,                    \* servers
          folder, share, group, service  \* resources

MCKind == [x \in Resources |->
             CASE x = folder -> "folder"
               [] x = share -> "share"
               [] x = group -> "group"
               [] x = service -> "service"]

OneServer == {<<a>>}

TwoServers == {<<a, b>>, <<a, a>>}

Images == {{group}, {share}, {folder, share}}

OneShare == {{share}}

Symmetry == Permutations(Scans)
=============================================================================
