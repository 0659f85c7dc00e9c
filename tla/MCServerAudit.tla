---------------------------- MODULE MCServerAudit ----------------------------
EXTENDS ServerAudit

CONSTANTS folder, share, extra, admin, group, service,  \* resources
          write, list,                                  \* permissions
          everyoneFull, everyoneRead, adminsFull,       \* rights
          member,
          account, system                               \* accounts

MCKind == [x \in Resources |->
             CASE x = folder -> "folder"
               [] x \in {share, extra, admin} -> "share"
               [] x = group -> "group"
               [] x = service -> "service"]

MCMentions == [v \in Values |->
                 CASE v = write -> {"write"}
                   [] v = list -> {"read"}
                   [] v = everyoneFull -> {"everyone", "change"}
                   [] v = everyoneRead -> {"everyone"}
                   [] v = adminsFull -> {"change", "admin"}
                   [] v = system -> {"admin"}
                   [] OTHER -> {}]

\* The seeded images approve hidden shares and groups without members.
Seeded == [x \in {folder, share, admin, group, service} |->
             CASE x = folder -> {list}
               [] x = share -> {adminsFull}
               [] x = admin -> {adminsFull}
               [] x = group -> {}
               [] x = service -> {account}]

Narrow == [x \in {folder, group} |-> IF x = folder THEN {list, write} ELSE {member}]

MCImages == {Seeded, Narrow}

Approved == {<<folder, list>>, <<share, adminsFull>>, <<admin, adminsFull>>,
             <<service, account>>}

Opened == Approved \union {<<share, everyoneFull>>, <<group, member>>}

Shared == Approved \union {<<extra, everyoneFull>>, <<extra, adminsFull>>, <<folder, write>>}

Mixed == {<<share, everyoneRead>>, <<extra, everyoneRead>>, <<service, system>>,
          <<folder, list>>, <<folder, write>>, <<group, member>>}

MCWorlds == {Approved, Opened, Shared, Mixed, {<<service, account>>}}
=============================================================================
