------------------------------ MODULE PodStart ------------------------------
(***************************************************************************)
(* The life of the pod of JenkinsPod: users edit the list of plugins, the  *)
(* reconciler writes it to the ConfigMap of scripts, and each start of the *)
(* container of Jenkins reads it from there and installs what it lists,    *)
(* if the pod was made with the hook that does.                            *)
(***************************************************************************)
EXTENDS JenkinsPod

CONSTANTS Lists, \* the lists of plugins users may ask for
          Alias, Served, Garbled, None, Files, MaxMishaps

ArchiveType == [version : Nat \cup {Garbled}, whole : BOOLEAN]

VARIABLES list, files, locks, failed, script, downloads, mishaps

Plugins == UNION {ToSet(l) : l \in Lists \cup {BasePlugins}}

Script == INSTANCE PluginInstallation WITH wanted <- installed

\* What the line of a plugin with a URL is taken for is no version of anything.
ASSUME StartAssumption ==
  /\ Lists \subseteq Seq(LineType)
  /\ \A s \in Requested : s.force => s.plugins \in Lists
  /\ \A p \in Plugins : p.name # Alias[p.name] /\ {p.name, Alias[p.name]} \subseteq Files
  /\ \A f \in Files : <<f, Garbled>> \notin Served
  /\ None \notin ArchiveType /\ MaxMishaps \in Nat

podVars    == <<spec, judgement, installed, pod>>
scriptVars == <<list, files, locks, failed, script, downloads>>
startVars  == <<podVars, scriptVars, mishaps>>

---------------------------------------------------------------------------
\* The pods worth starting are those with the hook.  All others are left to
\* the properties of JenkinsPod.
Edit(plugins) ==
  /\ pod.hook /\ judgement # "none" /\ Script!Mishap
  /\ spec' = [spec EXCEPT !.plugins = plugins] /\ judgement' = "none"
  /\ UNCHANGED <<installed, pod, scriptVars>>

Judge == Reconcile /\ UNCHANGED <<scriptVars, mishaps>>

Start   == pod.hook /\ Script!Begin
Install == Script!Progress
Break   == Script!Kill \/ (pod.hook /\ Script!Recreate(pod.persistent))

StartInit ==
  /\ PodInit
  /\ list = <<>> /\ files = Script!NoFiles /\ locks = {} /\ failed = FALSE
  /\ script = "off" /\ downloads = <<>> /\ mishaps = 0

StartNext == Judge \/ (\E plugins \in Lists : Edit(plugins))
          \/ ((Start \/ Install \/ Break) /\ UNCHANGED <<spec, judgement, pod>>)

\* The kubelet starts a container again whenever it ended, and the jobs of the
\* script run on.
StartSpec == StartInit /\ [][StartNext]_startVars
          /\ WF_startVars(Start /\ UNCHANGED <<spec, judgement, pod>>)
          /\ WF_startVars(Install /\ UNCHANGED <<spec, judgement, pod>>)

---------------------------------------------------------------------------
(* Properties.                                                             *)

\* A list the script can cope with: no plugin twice, no URL, and all of it
\* with the update center.
Installable(plugins) ==
  /\ \A i, j \in DOMAIN plugins : i # j => plugins[i].name # plugins[j].name
  /\ \A p \in ToSet(plugins) : ~ p.url /\ <<p.name, p.version>> \in Served

\* When the script has ended well, each line of the list it read has a whole
\* archive of the version the line asks for, or of that of another line that goes
\* by the same name, and no plugin of the operator is missing on the list
\* (validate.go:486-504), whatever earlier starts, breaks and lists left behind
\* (scripts_configmap.go:75, "If plugin already exists and is the same version do
\* not download").
ReadyHasPlugins ==
  /\ Script!ReadyHasPlugins
  /\ script = "ready" => PluginNames(BasePlugins) \subseteq PluginNames(list)

\* Why: a pod is that of the spec, of which only the plugins change later on,
\* and the list it installs was accepted with a spec.
PodInv ==
  /\ spec \in PodSpec /\ installed \in Seq(LineType)
  /\ spec.force => spec.plugins \in Lists
  /\ judgement = "accepted" => pod # NoPod
  /\ pod # NoPod =>
       /\ pod = Pod(Calculated(spec)) /\ VerifyVolumes(Calculated(spec))
       /\ VerifyBasePlugins(installed)
  /\ pod.hook => installed \in Lists \cup {BasePlugins}

\* Why: what a job has found good stays so, or whoever writes the archive again
\* has a check ahead, or fails the run, or goes on to its second name.
Pending(i) ==
  \E j \in DOMAIN downloads : /\ downloads[j].name = downloads[i].name
                             /\ downloads[j].step \in {"transfer", "check"}

JobInv(i) ==
  /\ downloads[i].name \in Script!Names(list[i])
  /\ downloads[i].step = "transfer" =>
       <<downloads[i].name, Script!Version(list[i])>> \in Served
  /\ downloads[i].step \in {"check", "gone"} /\ ~ failed => Script!Held(i, BOOLEAN)
  /\ downloads[i].step = "gone" /\ ~ failed =>
       Script!Held(i, {TRUE}) \/ Pending(i) \/ Script!Left(i)

JobType == [step : {"test", "fetch", "transfer", "check", "gone"},
            name : Files, alone : BOOLEAN]

ScriptInv ==
  /\ list \in Lists \cup {BasePlugins, <<>>}
  /\ files \in [Files -> ArchiveType \cup {None}]
  /\ \A f \in Files : files[f] # None => <<f, files[f].version>> \in Served
  /\ script \in {"off", "locking", "downloading", "ready"}
  /\ script # "off" => VerifyBasePlugins(list)
  /\ downloads \in Seq(JobType)
  /\ Len(downloads) <= Len(list) /\ \A i \in DOMAIN downloads : JobInv(i)
  /\ script = "downloading" => Len(downloads) = Len(list)
  /\ script = "ready" => /\ ~ failed /\ Len(downloads) = Len(list)
                         /\ \A i \in DOMAIN downloads : downloads[i].step = "gone"

\* A start that finds no locks installs a list the script can cope with, also
\* in a home with old and with broken archives (scripts_configmap.go:158-214).
\* One that finds locks never does: only the end of a good run removes them.
FreshHomeInstalls ==
  (/\ pod.hook /\ script = "off" /\ locks = {}
   /\ mishaps = MaxMishaps /\ judgement # "none"
   /\ Installable(installed)) ~> script = "ready"

\* jenkins_types.go:28, "ForceBasePluginsInstall forces the installation of the
\* minimum required basePlugins during Jenkins container startup": what was
\* accepted gets installed once nothing goes wrong any more.
ForceInstalls ==
  (pod.hook /\ judgement = "accepted" /\ mishaps = MaxMishaps) ~> script = "ready"

\* scripts_configmap.go:190, "make sure any explicit version set is used".
ExplicitVersions ==
  script = "ready" =>
    \A p \in ToSet(list) : files[p.name] = Script!Archive(p.version, TRUE)

=============================================================================
