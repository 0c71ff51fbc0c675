----------------------------- MODULE JenkinsPod -----------------------------
(***************************************************************************)
(* From a requested Jenkins spec to the pod of its Deployment:             *)
(* getCalculatedSpec (controllers/jenkins_controller.go), the checks of    *)
(* pkg/configuration/base/validate.go that look at nothing but the spec,   *)
(* and the volumes and containers of pkg/configuration/base/resources.     *)
(* The parts build the names of volumes independently of each other.       *)
(***************************************************************************)
EXTENDS Naturals, FiniteSets, SequencesExt

CONSTANTS
  Requested,   \* the specs users may ask for
  BasePlugins, \* the plugins of the operator, a list of lines as below
  Given,       \* the words of users in the names they choose
  NoCasc       \* no section about configuration as code

\* A name of a volume is the sequence of the words it is put together from.
\* A spec: the name of its first container, if it has one, with its mounts
\* and the state of its JAVA_OPTS; other containers; volumes; configuration
\* as code, if it has one; backup volumes; a list of plugins, each with name
\* and version and maybe a URL; whether the plugins are installed by force and
\* whether the home is a claim.  A container is complete when its image, pull
\* policy and mount paths are.
Container(name, mounts, complete) ==
  [name |-> name, mounts |-> mounts, complete |-> complete]

Own == {"jenkins-home", "scripts", "init-configuration", "base-plugins", "casc-config",
        "operator-credentials", "casc-secret", "casc-default", "casc-init",
        "backup-pool", "helper-scripts", "jenkins-master"}
Words         == Seq(Own \cup Given)
LineType      == [name : Given, version : Nat, valid : BOOLEAN, url : BOOLEAN]
CascType      == [enabled : BOOLEAN, default : BOOLEAN, reload : BOOLEAN,
                  secret : BOOLEAN, configs : Seq(Words)]
ContainerType == [name : Given, mounts : SUBSET Words, complete : BOOLEAN]
PodSpec ==
  [first : {"none"} \cup Own \cup Given, mounts : SUBSET Words,
   opts : {"unset", "flags", "other"}, others : Seq(ContainerType),
   volumes : Seq(Words), casc : CascType \cup {NoCasc}, backups : Seq(Words),
   plugins : Seq(LineType), force : BOOLEAN, persistent : BOOLEAN]

ASSUME PodAssumption ==
  /\ Requested \subseteq PodSpec /\ BasePlugins \in Seq(LineType)
  /\ NoCasc \notin CascType

VARIABLES
  spec,      \* the spec, as the user has it now
  judgement, \* of the validation of that spec
  installed, \* the list of plugins in the ConfigMap with the scripts
  pod        \* the pod of the Deployment

---------------------------------------------------------------------------
(* getCalculatedSpec.                                                      *)

DefaultCasc == [enabled |-> TRUE, default |-> TRUE, reload |-> TRUE,
                secret |-> FALSE, configs |-> <<>>]

\* The first container must be Jenkins'.
CannotBeCalculated(s) == s.first \notin {"none", "jenkins-master"}

Calculated(s) ==
  [s EXCEPT !.first = "jenkins-master",
            !.opts = IF @ = "unset" THEN "flags" ELSE @,
            !.casc = IF @ = NoCasc THEN DefaultCasc ELSE @,
            !.plugins = IF @ = <<>> THEN BasePlugins ELSE @]

---------------------------------------------------------------------------
(* Volumes.                                                                *)

Home        == <<"jenkins-home">>
Scripts     == <<"scripts">>
Casc        == <<"casc-config">>
CascSecret  == <<"casc-secret">>
CascDefault == <<"casc-default">>
CascInit(c) == <<"casc-init">> \o c
Pool(b)     == b \o <<"backup-pool">>
Helpers     == <<"helper-scripts">>

Opt(condition, names)   == IF condition THEN names ELSE <<>>
CascInits(names)        == [i \in DOMAIN names |-> CascInit(names[i])]
Pools(names)            == [i \in DOMAIN names |-> Pool(names[i])]

CascVolumes_NoDefault(c) ==                                      \* mutant
  Opt(c.enabled, <<Casc>> \o CascInits(c.configs) \o Opt(c.secret, <<CascSecret>>))
CascVolumes(c) ==
  Opt(c.enabled,
      <<Casc>> \o Opt(c.default, <<CascDefault>>)
        \o CascInits(c.configs) \o Opt(c.secret, <<CascSecret>>))

\* GetJenkinsMasterPodBaseVolumes.
BaseVolumes(s) ==
  <<Scripts, <<"init-configuration">>, <<"base-plugins">>,
    <<"operator-credentials">>, Home>>
    \o s.backups \o Opt(s.casc # NoCasc, CascVolumes(s.casc))

\* getJenkinsVolumes.
Volumes(s) ==
  BaseVolumes(s) \o s.volumes
    \o Opt(s.backups # <<>>, Append(Pools(s.backups), Helpers))

---------------------------------------------------------------------------
(* Validate.                                                               *)

Reserved(s) == ToSet(BaseVolumes(s)) \cap ToSet(s.volumes)

Unmounted(s, c) == c.mounts \ ToSet(BaseVolumes(s) \o s.volumes)

\* containers[0] and the others, as the user gave them.
UserContainers(s) ==
  <<Container("jenkins-master", s.mounts, TRUE)>> \o s.others

PluginNames(plugins) == {p.name : p \in ToSet(plugins)}

VerifyDependencies(plugins) ==
  \A p, q \in ToSet(plugins) : p.name = q.name => p.version = q.version

VerifyBasePlugins(plugins) == PluginNames(BasePlugins) \subseteq PluginNames(plugins)

\* validateConfiguration, as far as it looks nothing up.
VerifyConfiguration(c) == c.secret => c.configs # <<>>

\* validateReservedVolumes and validateContainer.
VerifyVolumes(s) ==
  /\ Reserved(s) = {}
  /\ \A c \in ToSet(UserContainers(s)) : c.complete /\ Unmounted(s, c) = {}

\* Validate has no messages.
Accepted(s) ==
  /\ VerifyVolumes(s)
  /\ \A p \in ToSet(s.plugins) : p.valid
  /\ VerifyDependencies(s.plugins) /\ VerifyBasePlugins(s.plugins)
  /\ VerifyConfiguration(s.casc)
  /\ s.opts = "flags"

---------------------------------------------------------------------------
(* Containers.  The mounts of one container, by the volumes they name.     *)

MasterMounts(s) ==
  {Home, Scripts, <<"init-configuration">>, <<"base-plugins">>}
    \cup ToSet(Opt(s.casc # NoCasc /\ s.casc.enabled,
                   <<Casc>> \o Opt(s.casc.secret, <<CascSecret>>)))
    \cup s.mounts

BackupMounts(s) == {Helpers} \cup ToSet(Pools(s.backups))

ConfigInitMounts_Target(s) == {Casc}                             \* mutant
ConfigInitMounts(s) ==
  {Casc}
    \cup ToSet(Opt(s.casc = NoCasc \/ s.casc.default, <<CascDefault>>))
    \cup ToSet(Opt(s.casc # NoCasc /\ s.casc.enabled,
                   CascInits(s.casc.configs)))

\* newContainers.
Containers(s) ==
  <<Container("jenkins-master", MasterMounts(s), TRUE)>>
    \o Opt(s.casc # NoCasc,
           Opt(s.casc.enabled /\ s.casc.reload,
               <<Container("config", {Casc, Home, Scripts}, TRUE)>>)
             \o s.others)
    \o Opt(s.backups # <<>>,
           <<Container("backup", BackupMounts(s) \cup {Home}, TRUE)>>)

\* newInitContainers.
InitContainers(s) ==
  <<Container("plugins-init", {Scripts, <<"base-plugins">>}, TRUE)>>
    \o Opt(s.casc = NoCasc \/ s.casc.enabled,
           <<Container("config-init", ConfigInitMounts(s), TRUE)>>)
    \o Opt(s.backups # <<>>,
           <<Container("backup-init", BackupMounts(s), TRUE)>>)

\* GetJenkinsContainer: the hook that runs the script.
Hook(s) == s.force

NoPod == [volumes |-> <<>>, containers |-> <<>>, inits |-> <<>>,
          hook |-> FALSE, persistent |-> FALSE]
Pod(s) == [volumes |-> Volumes(s), containers |-> Containers(s),
           inits |-> InitContainers(s),
           hook |-> Hook(s), persistent |-> s.persistent]

---------------------------------------------------------------------------
\* A pass of the reconciler over a spec it has not judged yet.  The ConfigMaps
\* follow the spec, the Deployment is never changed once it is there.
Reconcile ==
  /\ judgement = "none"
  /\ LET s == Calculated(spec) IN
     \/ /\ CannotBeCalculated(spec)
        /\ judgement' = "failed" /\ UNCHANGED <<installed, pod>>
     \/ /\ ~ CannotBeCalculated(spec) /\ ~ Accepted(s)
        /\ judgement' = "rejected" /\ UNCHANGED <<installed, pod>>
     \/ /\ ~ CannotBeCalculated(spec) /\ Accepted(s)
        /\ judgement' = "accepted"
        /\ installed' = s.plugins
        /\ pod' = IF pod = NoPod THEN Pod(s) ELSE pod
  /\ UNCHANGED spec

PodInit == spec \in Requested /\ judgement = "none" /\ installed = <<>> /\ pod = NoPod

---------------------------------------------------------------------------
(* Properties.                                                             *)

AllContainers == ToSet(pod.containers \o pod.inits)

Twice == {v \in ToSet(pod.volumes) :
            Cardinality({i \in DOMAIN pod.volumes : pod.volumes[i] = v}) > 1}

\* Every mount of every container of an accepted Jenkins names a volume of its
\* pod, and one only unless backup volumes are involved or the user lists a
\* volume or a configuration twice, which nobody checks; else the API server
\* refuses the Deployment.  Mounts and volumes are listed at eight places
\* (pod.go:154-441, deployment.go:47-72), and those of the user are checked
\* against another list than the pod gets (validate.go:359-372).
MountsResolve ==
  /\ \A c \in AllContainers : c.mounts \subseteq ToSet(pod.volumes)
  /\ /\ spec.backups = <<>> /\ IsInjective(spec.volumes)
     /\ spec.casc = NoCasc \/ IsInjective(spec.casc.configs)
     => Twice = {}

\* The pod of an accepted Jenkins has all the spec asks for.  The configuration
\* the user provides is mounted to the init container, and the volume it copies
\* it to by Jenkins and by the sidecar that reloads it; without a section of its
\* own a Jenkins gets the default one (docs/configurationascode.adoc:10-12).
\* The user's other containers, which pod.go:521-528 keeps or drops with the
\* configuration as code, are there in any case.
PodIsComplete ==
  LET c    == IF spec.casc = NoCasc THEN DefaultCasc ELSE spec.casc
      from == ToSet(CascInits(c.configs))
                \cup (IF c.default THEN {CascDefault} ELSE {})
      Has(n, vs) == \E k \in AllContainers : k.name = n /\ vs \subseteq k.mounts
  IN judgement = "accepted" =>
       /\ ToSet(spec.others) \subseteq ToSet(pod.containers)
       /\ c.enabled =>
            /\ Has("config-init", from \cup {Casc}) /\ Has("jenkins-master", {Casc})
            /\ c.reload => Has("config", {Casc})
            /\ c.secret => Has("jenkins-master", {CascSecret})

\* pod.go:153, "GetJenkinsMasterPodBaseVolumes returns Jenkins master pod
\* volumes required by operator": users keep off these, so that an accepted
\* Jenkins gets a pod whose volumes have different names.
VolumesDistinct ==
  IsInjective(spec.volumes) /\ IsInjective(spec.backups) => Twice = {}

=============================================================================
