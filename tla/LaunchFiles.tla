----------------------------- MODULE LaunchFiles -----------------------------
(***************************************************************************)
(* The launch files as data: the nodes each one starts under its           *)
(* conditions, the topics and transforms they carry, the actions it delays  *)
(* with a TimerAction, and the lifecycle managers with their node_names.    *)
(* RViz, joint states, the operator's joystick (his hand on /cmd_vel) and   *)
(* parameters that do not rewire the graph are left out.                    *)
(***************************************************************************)
EXTENDS Sequences

(* launch arguments that change the graph *)
Args == [software : BOOLEAN, dual : BOOLEAN, scope : BOOLEAN]

(* one output of a node: it carries data while the peers (processes of the  *)
(* same launch reached through Gazebo's own transport) are up and every     *)
(* topic of needs carries data                                             *)
Flow(peers, needs, topic) == [peers |-> peers, needs |-> needs, topic |-> topic]
Node(name, flows) == [name |-> name, flows |-> flows]
When(condition, nodes) == IF condition THEN nodes ELSE {}

Body == "odom->base_footprint"      \* the transform the slip simulator or the EKF sends
Localized == {Body, "map->odom"}
Sensed == Localized \union {"/odom", "/scan"}

-----------------------------------------------------------------------------
(* m1_gazebo.launch.py *)

(* Mutant: the single bridge whenever there is no software lidar. *)
WrongSingleScan(a) ==
    When(~a.software,
         {Node("m1_gazebo_bridge_scan", {Flow({"gazebo", "spawn_m1"}, {}, "/scan")})})

SingleScan(a) ==
    When(~a.software /\ ~a.dual,
         {Node("m1_gazebo_bridge_scan", {Flow({"gazebo", "spawn_m1"}, {}, "/scan")})})

DualScan(a) ==
    When(~a.software /\ a.dual,
         {Node("m1_gazebo_bridge_dual_scan",
               {Flow({"gazebo", "spawn_m1"}, {}, t) : t \in {"/scan_front", "/scan_rear"}}),
          Node("m1_dual_laser_merger", {Flow({}, {"/scan_front", "/scan_rear"}, "/scan")})})

SoftwareLidar(a) ==
    When(a.software,
         {Node("software_lidar", {Flow({}, {"/clock", "/ground_truth/odom"}, "/sim_scan")})})

SimulatorNodes ==
    {Node("gazebo", {}), Node("spawn_m1", {}),
     Node("robot_state_publisher", {Flow({}, {}, "/tf_static")})}

ObstacleMover ==
    {Node("dynamic_obstacle_mover",
          {Flow({}, {"/m1/gazebo_dynamic_tf"}, "/m1/dynamic_obstacles")})}

Bridge ==
    {Node("m1_gazebo_bridge_core",
          {Flow({"gazebo"}, {}, "/clock"), Flow({"gazebo"}, {}, "/m1/gazebo_dynamic_tf"),
           Flow({"gazebo", "spawn_m1"}, {}, "/ground_truth/odom")})}

SlipSimulator ==
    {Node("odom_slip_simulator",
          {Flow({}, {"/ground_truth/odom"}, t) : t \in {"/odom", Body}})}

M1Gazebo(a) ==
    SimulatorNodes \union ObstacleMover \union Bridge \union SlipSimulator
        \union SingleScan(a) \union DualScan(a) \union SoftwareLidar(a)

(* scan_relay_node: the software scan under the name the stack listens to *)
ScanRelay(a, name) ==
    When(a.software, {Node(name, {Flow({}, {"/sim_scan"}, "/scan")})})

-----------------------------------------------------------------------------
(* The Nav2 nodes the files share. *)

Localization ==
    {Node("map_server", {Flow({}, {}, "/map")}),
     Node("amcl", {Flow({}, {"/map", "/scan", Body}, "map->odom")}),
     Node("lifecycle_manager_localization", {})}

Motion(name, topic) == {Node(name, {Flow({}, Sensed, topic)})}
Relay(name, from, to) == {Node(name, {Flow({}, {from}, to)})}

ControllerServer == Motion("controller_server", "/cmd_vel_nav")
PlannerServer == {Node("planner_server", {Flow({}, Localized \union {"/map"}, "/plan")})}
Navigators == {Node("bt_navigator", {}), Node("waypoint_follower", {})}
VelocitySmoother == Relay("velocity_smoother", "/cmd_vel_nav", "/cmd_vel_smoothed")
CollisionMonitor == Relay("collision_monitor", "/cmd_vel_smoothed", "/m1/cmd_vel_raw")
NavWatchdog == Relay("m1_cmd_watchdog", "/m1/cmd_vel_raw", "/cmd_vel")
ImperativeWatchdog(name) == Relay(name, "/imperative/cmd_vel_raw", "/cmd_vel")

(* Mutant: the behavior server's remapping is forgotten. *)
WrongUnmapped == Motion("behavior_server", "/cmd_vel")

GazeboBehaviors == Motion("behavior_server", "/cmd_vel_nav")
(* nav2_m1_real.launch.py gives its behavior_server no cmd_vel remapping *)
RealBehaviors == Motion("behavior_server", "/cmd_vel")

ScopeOnline(a) ==
    When(a.scope, {Node("scope_predictor", {Flow({}, {"/odom", "/scan", Body}, "/scope/prediction")})})

-----------------------------------------------------------------------------
(* The files. *)

Nav2Gazebo(a) ==
    M1Gazebo(a) \union ScopeOnline(a) \union ScanRelay(a, "m1_scan_relay")
        \union Localization \union ControllerServer \union PlannerServer
        \union GazeboBehaviors \union Navigators \union VelocitySmoother
        \union {Node("lifecycle_manager_navigation", {})}
        \union CollisionMonitor \union {Node("lifecycle_manager_safety", {})} \union NavWatchdog

Nav2Real ==
    {Node("robot_state_publisher", {Flow({}, {}, "/tf_static")}), Node("smoother_server", {})}
        \union Localization \union ControllerServer \union PlannerServer
        \union RealBehaviors \union Navigators \union VelocitySmoother \union CollisionMonitor
        \union {Node("lifecycle_manager_navigation", {})} \union NavWatchdog

Mapping(a) ==
    M1Gazebo(a) \union ScanRelay(a, "m1_scan_relay")
        \union {Node("slam_toolbox", {Flow({}, {"/scan", Body}, t) : t \in {"/map", "map->odom"}}),
                Node("map_saver", {}), Node("lifecycle_manager_slam", {})}

(* the simulation controller listens to the software scan itself and        *)
(* commands /cmd_vel without a watchdog                                    *)
ImperativeGazebo(a) ==
    M1Gazebo(a) \union ScanRelay(a, "imperative_scan_relay")
        \union {Node("imperative_controller",
                     {Flow({}, {"/odom", IF a.software THEN "/sim_scan" ELSE "/scan"}, "/cmd_vel")})}

ImperativeLocalizedGazebo(a) ==
    M1Gazebo(a) \union Localization \union ScanRelay(a, "imperative_localized_scan_relay")
        \union Motion("imperative_m1_controller", "/imperative/cmd_vel_raw")
        \union ImperativeWatchdog("imperative_localized_cmd_watchdog")

ImperativeLocalizedReal ==
    Localization \union Motion("imperative_m1_controller", "/imperative/cmd_vel_raw")
        \union ImperativeWatchdog("imperative_localized_cmd_watchdog")

ImperativeReal ==
    {Node("imperative_m1_controller",
          {Flow({}, {"/odom", "/scan", Body}, "/imperative/cmd_vel_raw")})}

ImperativeCmdWatchdog == ImperativeWatchdog("imperative_cmd_watchdog")

(* the vendor's driver: wheel odometry, its transform and the lidar *)
Vendor ==
    {Node("vendor_base", {Flow({}, {}, t) : t \in {"/odom", Body, "/scan", "/tf_static"}})}

Files == {"nav2_m1_gazebo", "nav2_m1_real", "nav2_m1_mapping", "imperative_m1_gazebo",
          "imperative_m1_localized_gazebo", "imperative_m1_localized_real",
          "imperative_m1_real", "imperative_cmd_watchdog", "vendor"}

(* the arguments that make a difference to a file *)
ArgsOf(file) ==
    CASE file = "nav2_m1_gazebo" -> {a \in Args : a.software => a.dual}
      [] file \in {"nav2_m1_mapping", "imperative_m1_gazebo", "imperative_m1_localized_gazebo"} ->
            {a \in Args : (a.software => a.dual) /\ ~a.scope}
      [] OTHER -> {a \in Args : a.software /\ a.dual /\ ~a.scope}

NodesOf(file, a) ==
    CASE file = "nav2_m1_gazebo" -> Nav2Gazebo(a)
      [] file = "nav2_m1_real" -> Nav2Real
      [] file = "nav2_m1_mapping" -> Mapping(a)
      [] file = "imperative_m1_gazebo" -> ImperativeGazebo(a)
      [] file = "imperative_m1_localized_gazebo" -> ImperativeLocalizedGazebo(a)
      [] file = "imperative_m1_localized_real" -> ImperativeLocalizedReal
      [] file = "imperative_m1_real" -> ImperativeReal
      [] file = "imperative_cmd_watchdog" -> ImperativeCmdWatchdog
      [] file = "vendor" -> Vendor

(* what a file starts with a TimerAction, in the order of the delays *)
Delayed(file) ==
    CASE file = "nav2_m1_gazebo" ->
            <<"spawn_m1", "lifecycle_manager_localization", "lifecycle_manager_safety",
              "scope_predictor", "lifecycle_manager_navigation">>
      [] file \in {"nav2_m1_mapping", "imperative_m1_gazebo",
                   "imperative_m1_localized_gazebo"} -> <<"spawn_m1">>
      [] OTHER -> <<>>

(* node_names of the lifecycle managers *)
LocalizationNames == <<"map_server", "amcl">>
SafetyNames == <<"velocity_smoother", "collision_monitor">>

NavigationNames(file) ==
    IF file = "nav2_m1_real"
    THEN <<"controller_server", "smoother_server", "planner_server", "behavior_server",
           "bt_navigator", "waypoint_follower", "velocity_smoother", "collision_monitor">>
    ELSE <<"controller_server", "planner_server", "behavior_server",
           "bt_navigator", "waypoint_follower">>

NamesOf(file, manager) ==
    CASE manager = "lifecycle_manager_localization" -> LocalizationNames
      [] manager = "lifecycle_manager_safety" -> SafetyNames
      [] manager = "lifecycle_manager_navigation" -> NavigationNames(file)
      [] manager = "lifecycle_manager_slam" -> <<"map_saver">>

Managers == {"lifecycle_manager_localization", "lifecycle_manager_safety",
             "lifecycle_manager_navigation", "lifecycle_manager_slam"}

Managed == {"map_server", "amcl", "controller_server", "smoother_server", "planner_server",
            "behavior_server", "bt_navigator", "waypoint_follower", "velocity_smoother",
            "collision_monitor", "map_saver"}

(* the sessions the guides describe: files that run side by side *)
Sessions ==
    {{"nav2_m1_mapping"}, {"imperative_m1_gazebo"}, {"imperative_m1_localized_gazebo"},
     {"nav2_m1_gazebo"}, {"vendor", "nav2_m1_real"}, {"vendor", "imperative_m1_localized_real"},
     {"vendor", "imperative_m1_real", "imperative_cmd_watchdog"}}
=============================================================================
