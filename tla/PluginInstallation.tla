------------------------- MODULE PluginInstallation -------------------------
(***************************************************************************)
(* init.sh and install-plugins.sh (pkg/configuration/base/resources/       *)
(* scripts_configmap.go), run in the container of Jenkins after each of    *)
(* its starts.  They fill a directory of the home of Jenkins, which        *)
(* outlives the container, and so do the locks they take: one directory    *)
(* for each plugin of the list.  The plugins are downloaded side by side.  *)
(***************************************************************************)
EXTENDS Naturals, Sequences

CONSTANTS
  Plugins,    \* lines of the list: name, version, and whether a URL follows
  Files,      \* the names of archives, those of the plugins among them
  Alias,      \* the second name a plugin is looked for by
  Served,     \* what the update center has: pairs of a name and a version
  Garbled,    \* what is taken for the version of a line with a URL
  None,
  MaxMishaps  \* bound on what goes wrong, and on changes of the list

VARIABLES
  wanted,     \* the list in the ConfigMap with the scripts
  list,       \* the list of this run
  files,      \* the archives in the home of Jenkins
  locks,      \* the lock directories, by the names of plugins
  failed,     \* failed-plugins.txt is there
  script,     \* where this run is; "off" when the container is not running
  downloads,  \* the background jobs, one for each line locked so far
  mishaps

home    == <<files, locks, failed>>
running == <<list, script, downloads>>
vars    == <<wanted, home, running, mishaps>>

Archive(version, whole) == [version |-> version, whole |-> whole]

---------------------------------------------------------------------------
(* The script.                                                             *)

Mishap == mishaps < MaxMishaps /\ mishaps' = mishaps + 1

\* versionFromPlugin: what follows the last colon of the line.
Version(p) == IF p.url THEN Garbled ELSE p.version

LockFile_Shared(name) == CHOOSE f \in Files : TRUE               \* mutant
LockFile(name) == name

\* The container starts, the postStart hook runs and main clears the failures.
Begin ==
  /\ script = "off"
  /\ script' = "locking" /\ list' = wanted /\ downloads' = <<>>
  /\ failed' = FALSE
  /\ UNCHANGED <<wanted, files, locks, mishaps>>

\* set -e, and a failing hook takes the container with it.
Exit == script' = "off" /\ downloads' = <<>> /\ UNCHANGED list

Job(name) == [step |-> "test", name |-> name, alone |-> TRUE]

Lock ==
  /\ script = "locking" /\ Len(downloads) < Len(list)
  /\ LET name == list[Len(downloads) + 1].name
         lock == LockFile(name) IN
     \/ /\ lock \notin locks
        /\ locks' = locks \cup {lock}
        /\ downloads' = Append(downloads, Job(name))
        /\ UNCHANGED <<list, script>>
     \/ /\ lock \in locks /\ Exit /\ UNCHANGED locks
  /\ UNCHANGED <<wanted, files, failed, mishaps>>

\* The war is read between the locks and the downloads.
Analyze ==
  /\ script = "locking" /\ Len(downloads) = Len(list)
  /\ \/ /\ script' = "downloading" /\ UNCHANGED <<list, downloads, mishaps>>
     \/ /\ Mishap /\ Exit
  /\ UNCHANGED <<wanted, home>>

---------------------------------------------------------------------------
(* One job: download, doDownload and checkIntegrity.                       *)

Step(i, step) ==
  /\ downloads' = [downloads EXCEPT ![i].step = step]
  /\ UNCHANGED <<list, script>>

\* A download that failed is tried once more under the other name.
Retry(i) ==
  /\ IF downloads[i].name = list[i].name
     THEN /\ downloads' = [downloads EXCEPT ![i] = Job(Alias[list[i].name])]
          /\ UNCHANGED failed
     ELSE /\ downloads' = [downloads EXCEPT ![i].step = "gone"]
          /\ failed' = TRUE
  /\ UNCHANGED <<list, script>>

Working(i, step) == script = "downloading" /\ downloads[i].step = step

\* An archive with a broken end does not even give its manifest.
Provided_AnyVersion(name, version) ==                            \* mutant
  files[name] # None /\ files[name].whole
Provided(name, version) == files[name] = Archive(version, TRUE)

Test(i) ==
  /\ Working(i, "test")
  /\ Step(i, IF Provided(downloads[i].name, Version(list[i]))
             THEN "check" ELSE "fetch")
  /\ UNCHANGED <<wanted, home, mishaps>>

Sharing(i) == {j \in DOMAIN downloads :
                 j # i /\ Working(j, "transfer") /\ downloads[j].name = downloads[i].name}

\* curl writes the archive from its beginning once there is an answer.
Fetch(i) ==
  /\ Working(i, "fetch")
  /\ LET name == downloads[i].name
         version == Version(list[i]) IN
     \/ /\ <<name, version>> \in Served
        /\ files' = [files EXCEPT ![name] = Archive(version, FALSE)]
        /\ downloads' = [j \in DOMAIN downloads |->
             IF j = i THEN [downloads[i] EXCEPT !.step = "transfer", !.alone = Sharing(i) = {}]
             ELSE IF j \in Sharing(i) THEN [downloads[j] EXCEPT !.alone = FALSE]
             ELSE downloads[j]]
        /\ UNCHANGED <<list, script, failed, mishaps>>
     \/ /\ <<name, version>> \notin Served
        /\ Retry(i) /\ UNCHANGED <<files, mishaps>>
     \/ /\ Mishap /\ Retry(i) /\ UNCHANGED files
  /\ UNCHANGED <<wanted, locks>>

\* Two jobs that write the same archive may leave anything.  A transfer may
\* break off, and it may come to an end with an archive that is none.
Transfer(i) ==
  /\ Working(i, "transfer")
  /\ \/ /\ \E whole \in {TRUE, downloads[i].alone} :
             files' = [files EXCEPT ![downloads[i].name] = Archive(Version(list[i]), whole)]
        /\ Step(i, "check") /\ UNCHANGED <<failed, mishaps>>
     \/ /\ Mishap /\ Retry(i) /\ UNCHANGED files
     \/ /\ files' = [files EXCEPT ![downloads[i].name] = Archive(Version(list[i]), FALSE)]
        /\ Mishap /\ Step(i, "check") /\ UNCHANGED failed
  /\ UNCHANGED <<wanted, locks>>

Intact(name) == files[name] # None /\ files[name].whole

Check(i) ==
  /\ Working(i, "check")
  /\ failed' = (failed \/ ~ Intact(downloads[i].name))
  /\ Step(i, "gone")
  /\ UNCHANGED <<wanted, files, locks, mishaps>>

---------------------------------------------------------------------------
Finish ==
  /\ script = "downloading" /\ \A i \in DOMAIN downloads : downloads[i].step = "gone"
  /\ \/ /\ failed /\ Exit /\ UNCHANGED locks
     \/ /\ ~ failed /\ locks' = {} /\ script' = "ready"
        /\ UNCHANGED <<list, downloads>>
  /\ UNCHANGED <<wanted, files, failed, mishaps>>

---------------------------------------------------------------------------
(* The environment.                                                        *)

\* The container is killed and its home stays.
Kill ==
  /\ script # "off" /\ Mishap /\ Exit
  /\ UNCHANGED <<wanted, home>>

NoFiles == [f \in Files |-> None]

\* Another pod takes over, with the same home only if that is a claim.
Recreate(persistent) ==
  /\ Mishap /\ Exit
  /\ IF persistent THEN UNCHANGED home
     ELSE files' = NoFiles /\ locks' = {} /\ failed' = FALSE
  /\ UNCHANGED wanted

\* The operator writes another list to the ConfigMap.
Rewrite ==
  /\ Mishap /\ wanted' \in Seq(Plugins)
  /\ UNCHANGED <<home, running>>

Progress ==
  \/ Lock \/ Analyze \/ Finish
  \/ \E i \in DOMAIN downloads : Test(i) \/ Fetch(i) \/ Transfer(i) \/ Check(i)

Init ==
  /\ wanted \in Seq(Plugins) /\ list = <<>>
  /\ files = NoFiles /\ locks = {} /\ failed = FALSE
  /\ script = "off" /\ downloads = <<>> /\ mishaps = 0

Next == Begin \/ Progress \/ Kill \/ Rewrite
          \/ \E persistent \in BOOLEAN : Recreate(persistent)

Spec == Init /\ [][Next]_vars

---------------------------------------------------------------------------
(* Properties.                                                             *)

\* The names a plugin is looked for by, and the lines that go by one.
Names(p)   == {p.name, Alias[p.name]}
Lines(name) == {j \in DOMAIN list : name \in Names(list[j])}

\* The archive of a job is there, whole or not, in the version of its line, or
\* of another one that goes by the same name.
Held(i, wholes) ==
  \E j \in Lines(downloads[i].name), whole \in wholes :
    files[downloads[i].name] = Archive(Version(list[j]), whole)

\* Another line had the name of this job's archive for its first, and has left
\* it, maybe with a broken archive, for its second.
Left(i) ==
  \E j \in DOMAIN downloads \ {i} :
    list[j].name = downloads[i].name /\ downloads[j].name # downloads[i].name

\* When the script has ended well, each line of its list has a whole archive,
\* under one of its two names and in the version it asks for, whatever earlier
\* starts, breaks and lists left behind (scripts_configmap.go:75, "If plugin
\* already exists and is the same version do not download").  Where other lines
\* go by that name, too, the jobs write the same archive (scripts_configmap.go:
\* 40-66): it has the version of one of them, unless a line of that very name
\* gave up on it and got its archive under its second name.
ReadyHasPlugins ==
  script = "ready" =>
    \A i \in DOMAIN list :
      /\ i \in Lines(downloads[i].name)
      /\ \/ \E j \in Lines(downloads[i].name) :
              files[downloads[i].name] = Archive(list[j].version, TRUE)
         \/ Left(i)

=============================================================================
