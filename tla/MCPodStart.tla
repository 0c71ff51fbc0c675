----------------------------- MODULE MCPodStart -----------------------------
(* A small instance of PodStart for TLC.                                   *)
EXTENDS PodStart

Typed == {"data", "tool", "git", "git-plugin", "kubernetes", "?"}

Line(n, v) == [name |-> n, version |-> v, valid |-> TRUE, url |-> FALSE]
Git  == Line("git", 1)
Kube == Line("kubernetes", 1)
Base == <<Git, Kube>>

Data == <<"data">>

\* Volumes of users, one of which is named like one of the operator's.
VolumeLists == {<<>>, <<Data>>, <<Scripts>>, <<Helpers>>, <<CascInit(Data)>>, <<Data, Casc>>}
MountSets   == {{}, {Data}, {Scripts}, {Pool(Data)}}
Cascs == {NoCasc, [DefaultCasc EXCEPT !.configs = <<Data, Data>>]} \cup
  [enabled : BOOLEAN, default : BOOLEAN, reload : BOOLEAN, secret : BOOLEAN,
   configs : {<<>>, <<Data>>}]
Others == {<<>>} \cup {<<Container("tool", {Data}, ok)>> : ok \in BOOLEAN}
Judged == {<<>>, Base, <<Line("git", 2)>>, Append(Base, Line("git", 2)),
           Append(Base, [Line("?", 1) EXCEPT !.valid = FALSE])}

Small ==
  [first : {"none", "jenkins-master", "tool"}, mounts : MountSets,
   opts : {"unset", "flags", "other"}, others : Others, volumes : VolumeLists,
   casc : Cascs, backups : {<<>>, <<Data>>}, plugins : Judged,
   force : {FALSE}, persistent : {FALSE}]

\* A spec without a first container has neither mounts, options nor others.
Specs == {s \in Small :
  s.first = "none" => s.mounts = {} /\ s.opts = "unset" /\ s.others = <<>>}

\* Lists to install: newer versions, a line with a URL, one twice, one that is
\* the other name of another one, and a list that lacks a plugin.
Installed == {<<>>, <<Line("git", 2), Kube>>, <<[Git EXCEPT !.url = TRUE], Kube>>,
              <<Git, Kube, Git>>, <<Git, Kube, Line("git-plugin", 2)>>,
              <<Kube, Line("git", 3)>>, <<Line("git", 2)>>}
Forced ==
  [first : {"none"}, mounts : {{}}, opts : {"unset"}, others : {<<>>},
   volumes : {<<>>}, casc : {NoCasc}, backups : {<<>>}, plugins : Installed,
   force : {TRUE}, persistent : BOOLEAN]
All == Specs \cup Forced

Archives == {"git", "git-plugin", "git-plugin-plugin", "kubernetes", "kubernetes-plugin"}
OtherName == [n \in {"git", "git-plugin", "kubernetes"} |->
                CASE n = "git" -> "git-plugin"
                  [] n = "git-plugin" -> "git-plugin-plugin"
                  [] OTHER -> "kubernetes-plugin"]

\* Version 3 of git is only there under its other name, and that is the name of
\* another plugin, which has a second name, too.
Center == {<<"git", 1>>, <<"git", 2>>, <<"kubernetes", 1>>, <<"git-plugin", 1>>,
           <<"git-plugin", 2>>, <<"git-plugin", 3>>, <<"git-plugin-plugin", 2>>}

=============================================================================
