----------------------------- MODULE Appliance -----------------------------
(***************************************************************************)
(* One tile of the catalogue, from the first boot on (appliance_substrate, *)
(* appliances, homelab, lamp): the recipe runs in the guest on top of the  *)
(* substrate's helpers, may die at any step and may be run again, with the *)
(* disk or ZFS it lacked before, while services write; the host waits for  *)
(* a port, and then enrols the guest, counts it as built or seals it.      *)
(***************************************************************************)
EXTENDS Naturals, Sequences, FiniteSets

CONSTANTS
  Tile,      \* the tiles to build
  Family,    \* of the images to build them on: "rpm", "deb"
  MaxRun,    \* bound: times the recipe runs
  MaxFault   \* bound: steps that fail, power cuts, ZFS that does not install

ApplianceAssumption == Family \subseteq {"rpm", "deb"} /\ MaxRun \in Nat /\ MaxFault \in Nat

VARIABLES
  tile, family, purpose,
  pc, runs,       \* the step the recipe is at, 0 when it does not run; runs begun
  zfs, disk,      \* the guest has zpool; its second disk
  pool,           \* APP_POOL of this run is not empty
  made,           \* data that has a dataset, mounted where it is used
  below, inside,  \* what lies in the directory itself, and in its dataset
  services,       \* those that run, and are enabled
  failed,         \* APP_CHECKS_FAIL > 0
  result,         \* the first run's last line, in cloud-init's log
  host,           \* what the build on the host is at
  plain,          \* history: a run went on without a pool
  bare,           \* history: data a service kept in its directory after such a run
  faults

guest == <<zfs, disk, pool, made, below, inside, bare, services>>
vars  == <<tile, family, purpose, pc, runs, guest, failed, result, host, plain, faults>>

-----------------------------------------------------------------------------
(* The recipes.  "data" is app_dataset; "pkg" installs what a service runs *)
(* on, "serve" enables it; "more" is configuration that ends the recipe    *)
(* when it fails, "check" the app_checks, "mount" those that want a        *)
(* dataset mounted.                                                        *)

Do(kind, names) == [i \in 1..Len(names) |-> [do |-> kind, of |-> names[i]]]
Pool     == Do("pool", <<"">>)
Data(ds) == Do("data", ds)
Pkg(ss)  == Do("pkg", ss)
More     == Do("more", <<"">>)
Serve(ss) == Do("serve", ss)
Check    == Do("check", <<"">>)
Mounted(d) == Do("mount", <<d>>)
Summary  == Do("summary", <<"">>)

\* Mutant: packages first.
webStackLate == Pkg(<<"nginx", "pg", "fpm", "cache">>) \o Pool \o Data(<<"pg", "cache", "www">>)
  \o Serve(<<"pg", "cache", "fpm", "nginx">>) \o Check \o More \o Summary

webTiers == Pool \o Data(<<"pg", "cache", "www">>) \o Pkg(<<"nginx", "pg", "fpm", "cache">>)
webStores == Serve(<<"pg">>) \o More \o Serve(<<"cache">>)
webFront == More \o Serve(<<"fpm", "nginx">>) \o Check \o More \o Summary
webStack == webTiers \o webStores \o webFront

lampTiers == Pool \o Data(<<"mysql", "www">>) \o Pkg(<<"httpd", "mysql">>) \o Serve(<<"mysql">>)
lampStack == lampTiers \o More \o Serve(<<"httpd">>) \o Check \o More \o Summary

jellyfinTiers == Pool \o Data(<<"jellyfin", "media">>) \o Pkg(<<"jellyfin">>)
jellyfin == jellyfinTiers \o More \o Serve(<<"jellyfin">>) \o More \o Check \o More \o Summary

plex == Pool \o Data(<<"media", "plex">>) \o Pkg(<<"plex">>) \o More \o Serve(<<"plex">>) \o Check \o More \o Summary

\* Its own script: nothing may listen on 53, and the wizard's port ends it.
adguardHome == Do("free53", <<"">>) \o Pkg(<<"adguard">>) \o Serve(<<"adguard">>) \o Do("answers", <<"">>)

\* No app_summary: the web interface that answers ends it.
syncthing == Pool \o Data(<<"syncthing">>) \o Pkg(<<"syncthing">>) \o Serve(<<"syncthing">>) \o More \o Do("answers", <<"">>)

seedbox == Pool \o Data(<<"landing", "apps">>) \o Pkg(<<"apps">>) \o More \o Serve(<<"apps">>)
  \o Check \o Mounted("landing") \o More \o Summary

\* add-station makes a station's dataset, when there is a pool, and then starts it.
icecast == Pool \o Pkg(<<"">>) \o Data(<<"station">>) \o Serve(<<"station">>) \o Check \o More \o Summary

\* The web receiver has a package on Debian only, and costs only itself.
sdrStation == Pool \o Data(<<"captures", "webrx">>) \o Pkg(<<"">>)
  \o (IF family = "deb" THEN Do("optional", <<"webrx">>) \o Serve(<<"webrx">>) ELSE <<>>) \o Serve(<<"soapy">>)
  \o Check \o Mounted("captures") \o More \o Summary

tvheadend == Pool \o Data(<<"recordings", "tvh">>)
  \o (IF family = "rpm" THEN Do("die", <<"">>) ELSE Pkg(<<"tvh">>)) \o Serve(<<"tvh">>)
  \o Check \o Mounted("recordings") \o More \o Summary

vdiTiers == Pkg(<<"", "nginx">>) \o More \o Serve(<<"mediamtx">>)
vdiDesktop == vdiTiers \o More \o Serve(<<"session", "nginx">>) \o Check

rdpDesktop == Pkg(<<"", "xrdp">>) \o More \o Serve(<<"xrdp">>) \o Check

Recipe ==
  CASE tile = "webStack" -> webStack [] tile = "lampStack" -> lampStack [] tile = "jellyfin" -> jellyfin
    [] tile = "plex" -> plex [] tile = "adguardHome" -> adguardHome [] tile = "syncthing" -> syncthing
    [] tile = "seedbox" -> seedbox [] tile = "icecast" -> icecast [] tile = "sdrStation" -> sdrStation
    [] tile = "tvheadend" -> tvheadend [] tile = "vdiDesktop" -> vdiDesktop [] tile = "rdpDesktop" -> rdpDesktop

\* The service behind the port the host waits for.
Port ==
  CASE tile \in {"webStack", "vdiDesktop"} -> "nginx" [] tile = "lampStack" -> "httpd"
    [] tile = "adguardHome" -> "adguard" [] tile = "seedbox" -> "apps" [] tile = "icecast" -> "station"
    [] tile = "sdrStation" -> "webrx" [] tile = "tvheadend" -> "tvh" [] tile = "rdpDesktop" -> "xrdp" [] OTHER -> tile

\* Packages of Debian start what they install, but for those without a unit of their own.
StartsItself(s) == family = "deb" /\ s \notin {"", "apps", "syncthing", "adguard"}

Steps(kinds) == {i \in 1..Len(Recipe) : Recipe[i].do \in kinds}
Of(kinds)    == {Recipe[i].of : i \in Steps(kinds)}
HasSummary   == Steps({"summary"}) # {}

-----------------------------------------------------------------------------
AllData == {"pg", "cache", "www", "mysql", "jellyfin", "media", "plex", "syncthing", "landing", "apps",
            "station", "captures", "webrx", "recordings", "tvh", "adguard"}

Init ==
  /\ tile \in Tile /\ family \in Family
  /\ purpose \in {"all", "one", "golden"}
  /\ pc = 1 /\ runs = 1
  /\ zfs = FALSE /\ disk \in {"blank", "none"}
  /\ pool = FALSE /\ made = {}
  /\ below = [d \in AllData |-> "empty"] /\ inside = [d \in AllData |-> "empty"]
  /\ services = {} /\ bare = {}
  /\ failed = FALSE /\ result = "" /\ host = "waits"
  /\ plain = FALSE /\ faults = 0

Fault == faults < MaxFault /\ faults' = faults + 1
Step  == Recipe[pc]
At(kind) == pc > 0 /\ pc <= Len(Recipe) /\ Step.do = kind
Host  == UNCHANGED <<tile, family, purpose, runs, result, host>>
Goes  == pc' = IF pc = Len(Recipe) THEN 0 ELSE pc + 1

\* set -e: the recipe ends where it is.
Dies == pc' = 0 /\ Fault /\ UNCHANGED <<guest, failed, plain>>

\* A service that starts makes what it keeps where it finds nothing.
Filled(store, ds) == [d \in AllData |-> IF d \in ds /\ store[d] = "empty" THEN "init" ELSE store[d]]

Lays(ds) == bare' = IF plain THEN bare \cup ds ELSE bare

Starts(ss) ==
  /\ services' = services \cup ss
  /\ below' = Filled(below, (ss \cap AllData) \ made)
  /\ inside' = Filled(inside, ss \cap AllData \cap made)
  /\ Lays((ss \cap AllData) \ made)

-----------------------------------------------------------------------------
(* The substrate.                                                          *)

\* A candidate is a whole disk with nothing on it, no signature of any kind.
Blank == disk = "blank"

\* app_pool_init after app_install_zfs: without ZFS or a blank disk APP_POOL is emptied
\* and the recipe goes on.
AppPoolInit ==
  /\ At("pool") /\ Goes
  /\ \/ /\ zfs' = TRUE /\ UNCHANGED faults
        /\ disk' = IF disk # "pool" /\ Blank THEN "pool" ELSE disk
        /\ pool' = (disk' = "pool")
     \/ /\ ~zfs /\ Fault /\ pool' = FALSE /\ UNCHANGED <<zfs, disk>>
  /\ plain' = (plain \/ ~pool')
  /\ UNCHANGED <<made, below, inside, bare, services, failed>> /\ Host

\* app_dataset: a directory without a pool.  A dataset is mounted over what is there.
AppDataset ==
  /\ At("data")
  /\ \/ /\ Goes /\ made' = IF pool THEN made \cup {Step.of} ELSE made
        /\ UNCHANGED <<zfs, disk, pool, below, inside, bare, services, failed, plain, faults>>
     \/ pool /\ Dies
  /\ Host

\* app_pkg; app_pkg_optional costs only itself.
AppPkg ==
  /\ At("pkg") \/ At("optional")
  /\ \/ /\ Goes /\ UNCHANGED <<zfs, disk, pool, made, failed, plain, faults>>
        /\ Starts(IF StartsItself(Step.of) THEN {Step.of} ELSE {})
     \/ At("pkg") /\ Dies
     \/ At("optional") /\ Goes /\ Fault /\ UNCHANGED <<guest, failed, plain>>
  /\ Host

\* app_enable never fails; what it starts may.
AppEnable ==
  /\ At("serve") /\ Goes
  /\ \/ Starts({Step.of}) /\ UNCHANGED <<zfs, disk, pool, made, faults>>
     \/ Fault /\ UNCHANGED guest
  /\ UNCHANGED <<failed, plain>> /\ Host

Configures ==
  /\ At("more")
  /\ \/ Goes /\ UNCHANGED <<guest, failed, plain, faults>>
     \/ Dies
  /\ Host

\* free53 finds AdGuard Home itself once its wizard is done; tvheadend has no package.
GivesUp ==
  /\ \/ At("die") /\ pc' = 0
     \/ At("free53") /\ IF below["adguard"] = "used" THEN pc' = 0 ELSE Goes
     \/ At("answers") /\ pc' = 0
  /\ UNCHANGED <<guest, failed, plain, faults>> /\ Host

\* app_check counts and goes on.
AppCheck ==
  /\ At("check") \/ At("mount")
  /\ Goes
  /\ failed' = (failed \/ IF At("check") THEN ~(Of({"serve"}) \subseteq services) ELSE Step.of \notin made)
  /\ UNCHANGED <<tile, family, purpose, runs, guest, result, host, plain, faults>>

AppSummary ==
  /\ At("summary") /\ pc' = 0
  /\ result' = IF runs = 1 THEN (IF failed THEN "INCOMPLETE" ELSE "VERIFIED") ELSE result
  /\ UNCHANGED <<tile, family, purpose, runs, guest, failed, host, plain, faults>>

-----------------------------------------------------------------------------
(* Around the recipe.                                                      *)

On == host # "golden"

\* The operator runs it again; cloud-init never does.
Again ==
  /\ On /\ pc = 0 /\ runs < MaxRun
  /\ pc' = 1 /\ runs' = runs + 1 /\ failed' = FALSE
  /\ UNCHANGED <<tile, family, purpose, guest, result, host, plain, faults>>

Attach(d) ==
  /\ On /\ disk = "none" /\ disk' = d
  /\ UNCHANGED <<tile, family, purpose, pc, runs, zfs, pool, made, below, inside, bare, services, failed, result, host, plain, faults>>

\* Whoever uses a service leaves something of theirs.
Use(s) ==
  /\ s \in services \cap AllData
  /\ IF s \in made THEN inside' = [inside EXCEPT ![s] = "used"] /\ UNCHANGED below
                   ELSE below' = [below EXCEPT ![s] = "used"] /\ UNCHANGED inside
  /\ Lays({s} \ made)
  /\ UNCHANGED <<zfs, disk, pool, made, services, pc, failed, plain, faults>> /\ Host

\* A power cut and a boot: the recipe is gone, what was enabled starts.
PowerCut ==
  /\ On /\ pc > 0 /\ Fault /\ pc' = 0
  /\ Starts(services) /\ UNCHANGED <<zfs, disk, pool, made, failed, plain>> /\ Host

-----------------------------------------------------------------------------
(* On the host.                                                            *)

Turns(h) == host' = h /\ UNCHANGED <<tile, family, purpose, runs, failed, result, plain, faults>>

\* waitAppliance: any answer, or 25 minutes without one.
WaitAppliance ==
  /\ host = "waits"
  /\ \/ Port \in services /\ Turns("answered")
     \/ pc = 0 /\ Port \notin services /\ Turns("failed")
  /\ UNCHANGED <<pc, guest>>

\* recipeVerdict: three minutes for the last line, of recipes that have one.
Taken == IF HasSummary /\ result # "VERIFIED" THEN "failed" ELSE "built"

\* buildOneAppliance and RunApplianceBuild: build-all asks for the verdict; a single
\* build enrols, and one for a golden seals, what answers.
Takes ==
  /\ host = "answered"
  /\ IF purpose = "golden"
     THEN Turns("golden") /\ pc' = 0 /\ services' = {}
          /\ UNCHANGED <<zfs, disk, pool, made, below, inside, bare>>
     ELSE Turns(IF purpose = "all" THEN Taken ELSE "built") /\ UNCHANGED <<pc, guest>>

Next ==
  \/ AppPoolInit \/ AppDataset \/ AppPkg \/ AppEnable \/ Configures \/ GivesUp \/ AppCheck \/ AppSummary
  \/ Again \/ (\E d \in {"blank", "foreign"} : Attach(d)) \/ (\E s \in AllData : Use(s)) \/ PowerCut
  \/ WaitAppliance \/ Takes

Spec == Init /\ [][Next]_vars

-----------------------------------------------------------------------------
(* Properties.                                                             *)

\* "datasets BEFORE packages, so initdb lands inside them": whatever dies, is cut off
\* or run again, a dataset lies over what a service keeps exactly where that service
\* was in its directory after a run had gone on without a pool.  The run that finds the
\* disk at last moves none of that in ("attach one and re-run", appliance_substrate).
DataInside == \A d \in made : below[d] # "empty" <=> d \in bare

\* "The recipe's own verdict, not just the port": a tile build-all counts as built has
\* every service its recipe enables, and its recipe is over.
BuiltIsServing ==
  purpose = "all" /\ host = "built" /\ HasSummary =>
    Of({"serve"}) \subseteq services /\ (runs = 1 => pc = 0)

=============================================================================
