--------------------------- MODULE MCSourceChecks ---------------------------
(* A small world of names, addresses, ports, links and servers.            *)
EXTENDS SourceChecks, TLC

Texts == {"", " ", "x", "0", "1", "65535", "65536", "-1", " 1", "public", "db", "DB", "lan"}

SmallTrim    == [t \in Texts |-> IF t = " " THEN "" ELSE IF t = " 1" THEN "1" ELSE t]
SmallNumeral == "0" :> 0 @@ "1" :> 1 @@ "65535" :> 65535 @@ "65536" :> 65536 @@ "-1" :> -1
SmallLower   == "db" :> "db" @@ "DB" :> "db" @@ "lan" :> "lan"

\* Addresses 0..7: 4 and 5 are one denied range, 7 another.
SmallDenied == {[base |-> 4, size |-> 2], [base |-> 7, size |-> 1]}

SmallAllowlists ==
  { {}, {[kind |-> "host", name |-> "DB"]}, {[kind |-> "ip", base |-> 4]},
    {[kind |-> "cidr", base |-> 5, size |-> 2]} }

\* db is public, private, both, or unknown; lan is private.
SmallAnswers ==
  { "db" :> a @@ "lan" :> {7} : a \in {{}, {1}, {4}, {1, 5}, {5, 6}} }
\* The server of db speaks TLS or not; or it is down, has no such account, or does not
\* let the account list tables.
User   == [user |-> "x", password |-> "x", database |-> "x"]
Plain  == [ports |-> {1}, tls |-> FALSE, logins |-> {User}, lists |-> TRUE]
Secure == [Plain EXCEPT !.tls = TRUE]
SmallServers ==
  { "db" :> s @@ "lan" :> Secure
      : s \in {Plain, Secure, [Plain EXCEPT !.ports = {}], [Plain EXCEPT !.logins = {}],
               [Secure EXCEPT !.lists = FALSE]} }

File    == [kind |-> "file", to |-> <<>>, lists |-> TRUE]
Text    == [File EXCEPT !.lists = FALSE]
Dir     == [kind |-> "dir", to |-> <<>>, lists |-> FALSE]
Link(p) == [kind |-> "link", to |-> p, lists |-> FALSE]

\* /files is a directory or a link to one; it holds a file, a directory with a
\* file and a link that leads to the file, out of the directory, back to
\* itself or nowhere; or it is empty, or holds a file that is no database and one with
\* a blank name.
SmallDisks ==
  LET content(base, to) ==
        base :> Dir @@ (base \o <<"a">>) :> File @@ (base \o <<"sub">>) :> Dir
          @@ (base \o <<"sub", "b">>) :> File @@ (base \o <<"l">>) :> Link(to)
          @@ <<"etc">> :> Dir @@ <<"etc", "a">> :> File
      links == { <<"files", "a">>, <<"files", "sub">>, <<"etc", "a">>, <<"etc">>, <<"files", "l">>, <<"files", "gone">> }
  IN  { content(<<"files">>, to) : to \in links }
      \cup { content(<<"vol">>, to) @@ <<"files">> :> Link(<<"vol">>) : to \in links }
      \cup { <<"files">> :> Dir, <<"etc">> :> Dir,
             <<"files">> :> Dir @@ <<"files", "a">> :> Text @@ <<"files", " ">> :> File }

Base == [host |-> "db", port |-> "1", user |-> "x", password |-> "x", database |-> "x"]

NetParams ==
  { [Base EXCEPT !.host = h] : h \in {"DB", "lan", "", "x"} }
  \cup { [Base EXCEPT !.port = n] : n \in {"", " ", "x", "0", "1", "65535", "65536", "-1", " 1"} }
  \cup { [Base EXCEPT !.user = " "], [Base EXCEPT !.password = ""], [Base EXCEPT !.password = "0"], [Base EXCEPT !.database = " "] }

Paths == { <<>>, <<" ">>, <<"a">>, <<"l">>, <<"sub">>, <<"gone">>, <<".", "a">>, <<"sub", "b">>, <<"sub", "..", "a">>,
           <<"l", "b">>, <<"l", "..", "a">>, <<"l", "a">>, <<"..", "etc", "a">>, <<"..", "files", "a">>, <<"..">> }

SmallRequests ==
  { [name |-> "ok", type |-> "mysql", params |-> p] : p \in NetParams }
  \cup { [name |-> "ok", type |-> "postgres", params |-> p @@ "schema" :> s]
           : p \in {Base, [Base EXCEPT !.host = "DB"]}, s \in {"", "x"} }
  \cup { [name |-> "ok", type |-> "sqlite", params |-> [path |-> p]] : p \in Paths }
  \cup { [name |-> "No", type |-> "mysql", params |-> Base],
         [name |-> "No", type |-> "sqlite", params |-> [path |-> <<"a">>]],
         [name |-> "ok", type |-> "oracle", params |-> [path |-> <<"a">>]] }

\* Worlds that differ in what a network source meets, and in the disk.
Someone(al, a, sv, d) == [allow |-> al, dns |-> a, server |-> sv, disk |-> d]
SmallWorlds ==
  LET plain == CHOOSE sv \in SmallServers : sv["db"] = Plain
      free  == CHOOSE a \in SmallAnswers : a["db"] = {1}
      one   == CHOOSE d \in SmallDisks : <<"files", "sub", "b">> \in DOMAIN d
  IN  { Someone(al, a, plain, one) : al \in SmallAllowlists, a \in SmallAnswers }
      \cup { Someone({}, free, sv, one) : sv \in SmallServers }
      \cup { Someone({}, free, plain, d) : d \in SmallDisks }

OkName == {"ok"}
FilesDir == <<"files">>
=============================================================================
