------------------------------- MODULE Physics -------------------------------
(***************************************************************************)
(* Rigid bodies and collision shapes (core/gs_core_physics.cpp).  Each     *)
(* body and each shape is kept twice: the desc the program gave, and the   *)
(* object of Bullet made from it; handles of both are slots of arrays that *)
(* nothing is ever taken out of (remove_body does nothing).  A shape is    *)
(* shared by every body made with it, and it is the shape that is scaled.  *)
(*                                                                         *)
(* Bullet (third_party) is external: what it does to a body is its         *)
(* activation state, its flags, where it lies, and whether it is in the    *)
(* world's list of bodies to simulate.  Places are numbers; rotation,      *)
(* velocities and forces only matter inside a simulation step.  Ray casts, *)
(* user data and the pause (no Update for a while) are left out.           *)
(***************************************************************************)
EXTENDS Integers, Sequences

CONSTANTS
  Types,               \* shape types with a Bullet shape of their own
  Empty,               \* GS_CORE_COLLISION_SHAPE_EMPTY, also for any other type
  Masses,              \* masses, zero among them
  Attrs,               \* restitution, friction, dampings, gravity, factors
  AttrValues,
  DefaultGravity,      \* the world's gravity at first
  Scales,              \* local scalings, 1 among them
  Offsets,             \* offsets of a shape from its body
  Places,              \* where the program and the simulation put bodies
  Flags,               \* of GS_CORE_PHYSICS_BODY_FLAG_IS_*, those in use
  MaxBodies, MaxShapes \* bounds: slots

ASSUME PhysicsAssumption ==
  /\ 0 \in Masses /\ Masses \subseteq Nat
  /\ 1 \in Scales /\ Scales \subseteq Nat
  /\ AttrValues \subseteq Int /\ DefaultGravity \in Int
  /\ Offsets \subseteq Int /\ Places \subseteq Int
  /\ Flags \subseteq {"trigger", "kinematic", "ccd"}
  /\ Empty \notin Types
  /\ MaxBodies \in Nat /\ MaxShapes \in Nat

VARIABLES
  system,              \* g_physics: "none", "up", or "down" (shut down, not NULL)
  shapes,              \* bullet->shapes
  bodies,              \* bullet->bodies
  gravity              \* of bullet->world

vars == <<system, shapes, bodies, gravity>>
-----------------------------------------------------------------------------
NoInertia == <<0, 0>>

\* gs_core_physics_collision_shape_calculate_local_intertia: of the shape as it
\* is scaled now.
Inertia(s, mass) ==
  IF mass = 0 \/ shapes[s].type = Empty THEN NoInertia ELSE <<mass, shapes[s].scale>>

\* Mutant: the state is forced.
ActivationForced(b, state) == [b EXCEPT !.activation = state]

\* btCollisionObject::setActivationState and activate: a body whose
\* deactivation is disabled stays so.
Activation(b, state) == IF b.activation = "no_sleep" THEN b ELSE [b EXCEPT !.activation = state]
Activated(b, force) ==
  IF force \/ ~(b.static \/ b.kinematic) THEN Activation(b, "active") ELSE b
Active(b) == b.activation # "sleeping"

Clamped(v) == IF v < 0 THEN 0 ELSE IF v > 1 THEN 1 ELSE v

\* What Bullet holds of an attribute that was set: btRigidBody::setDamping clamps
\* both dampings, whichever of them is set.
Held(a, v) == IF a \in {"linear_damping", "angular_damping"} THEN Clamped(v) ELSE v

\* btRigidBody::setGravity
WithGravity(b, v) == [b EXCEPT !.attrs = [a \in Attrs |-> IF a = "gravity" THEN v ELSE @[a]]]

\* gs_core_physics_body_set_mass with btRigidBody::setMassProps.
WithMass(b, m) ==
  [b EXCEPT !.desc.mass = m, !.mass = m, !.static = m = 0,
            !.inertia = Inertia(b.desc.shape, m)]

\* gs_core_physics_body_set_is_kinematic, set_is_trigger and set_ccd_enabled.
\* None of them changes desc.flags, which the getters read: these report for good
\* what add_body was given, so the model has no desc.flags.
WithKinematic(b, on) ==
  IF on THEN Activation([b EXCEPT !.kinematic = TRUE], "no_sleep")
  ELSE IF b.kinematic THEN Activated([b EXCEPT !.kinematic = FALSE], TRUE)
  ELSE b

WithTrigger(b, on) == [b EXCEPT !.no_contact = on]

\* The sphere that is swept stays when continuous detection is switched off.
WithCcd(b, on) == [b EXCEPT !.ccd = on, !.swept = @ \/ on]

WithFlag(b, f, on) ==
  CASE f = "kinematic" -> WithKinematic(b, on)
    [] f = "trigger"   -> WithTrigger(b, on)
    [] f = "ccd"       -> WithCcd(b, on)

\* gs_core_physics_body_get_world_transform: the motion state less the shape's
\* offset, and the scaling in the shape's desc.
WorldTransform(b) ==
  [place |-> b.motion - shapes[b.desc.shape].offset,
   scale |-> shapes[b.desc.shape].desc_scale]

Scaled(s, v) == [shapes EXCEPT ![s].desc_scale = v, ![s].scale = v]

Init ==
  /\ system = "none"
  /\ shapes = <<>> /\ bodies = <<>>
  /\ gravity = DefaultGravity

Body(i) == system = "up" /\ i \in DOMAIN bodies
Change(i, b) ==
  /\ bodies' = [bodies EXCEPT ![i] = b]
  /\ UNCHANGED <<system, shapes, gravity>>
-----------------------------------------------------------------------------
\* gs_core_physics_new returns the one system there is, a shut down one too.
New ==
  /\ system = "none"
  /\ system' = "up"
  /\ UNCHANGED <<shapes, bodies, gravity>>

\* Shapes, bodies and motion states are out of reach and not freed.  The world goes
\* last, after the broadphase and the dispatcher its destructor uses for its bodies.
Shutdown ==
  /\ system = "up"
  /\ system' = "down"
  /\ shapes' = <<>> /\ bodies' = <<>>
  /\ UNCHANGED gravity

\* The desc's scaling is kept and not given to Bullet's shape.
AddShape(type, offset, scale) ==
  /\ system = "up" /\ Len(shapes) < MaxShapes
  /\ shapes' = Append(shapes, [type |-> IF type \in Types THEN type ELSE Empty,
                               offset |-> offset, desc_scale |-> scale, scale |-> 1])
  /\ UNCHANGED <<system, bodies, gravity>>

\* The flags are set before the body joins the world (addRigidBody): one that can
\* move gets the world's gravity for the desc's, a body without mass is put to
\* sleep and will never be among the ones that are simulated.
AddBody(desc, flags) ==
  LET made == [desc |-> desc, mass |-> desc.mass, static |-> desc.mass = 0,
               attrs |-> [a \in Attrs |-> Held(a, desc.attrs[a])], inertia |-> Inertia(desc.shape, desc.mass),
               kinematic |-> FALSE, no_contact |-> FALSE, ccd |-> FALSE, swept |-> FALSE,
               activation |-> "active", simulated |-> desc.mass # 0,
               place |-> 0, motion |-> 0, carried |-> FALSE]
      flagged == WithCcd(WithKinematic(WithTrigger(made, "trigger" \in flags),
                         "kinematic" \in flags), "ccd" \in flags)
      active == Activated(flagged, TRUE)
      joined == IF active.static THEN Activation(active, "sleeping")
                ELSE IF active.kinematic THEN active ELSE WithGravity(active, gravity)
  IN  /\ system = "up" /\ Len(bodies) < MaxBodies
      /\ desc.shape \in DOMAIN shapes
      /\ bodies' = Append(bodies, joined)
      /\ UNCHANGED <<system, shapes, gravity>>

SetMass(i, m) == Body(i) /\ Change(i, WithMass(bodies[i], m))

\* set_restitution, set_linear_damping, ... set_angular_factor: desc and Bullet.
SetAttr(i, a, v) ==
  /\ Body(i)
  /\ Change(i, [bodies[i] EXCEPT !.desc.attrs[a] = v, !.attrs[a] = Held(a, v)])

\* gs_core_physics_set_gravity: the descs are not told.
SetGravity(v) ==
  /\ system = "up"
  /\ gravity' = v
  /\ bodies' = [i \in DOMAIN bodies |->
                  IF bodies[i].simulated /\ Active(bodies[i]) THEN WithGravity(bodies[i], v)
                  ELSE bodies[i]]
  /\ UNCHANGED <<system, shapes>>

SetFlag(i, f, on) == Body(i) /\ Change(i, WithFlag(bodies[i], f, on))

\* set_awake(FALSE) puts no body to sleep: it wakes the bodies that can move.
SetAwake(i, on) == Body(i) /\ Change(i, Activated(bodies[i], on))

\* apply_central_force and its three sisters wake a body that sleeps.
ApplyForce(i) ==
  /\ Body(i)
  /\ Change(i, IF Active(bodies[i]) THEN bodies[i] ELSE Activated(bodies[i], TRUE))

ClearForces(i) == Body(i) /\ Change(i, WithMass(bodies[i], bodies[i].desc.mass))

\* Mutant: only Bullet's world transform is set.
PlacedInWorld(b, p) == [b EXCEPT !.place = p]

Placed(b, p) == [b EXCEPT !.place = p, !.motion = p, !.carried = FALSE]

\* Mutant: the body's handle is taken for its shape's, as get_shape_type does.
SetTransformOfHandle(i, place, scale) ==
  /\ i \in DOMAIN shapes
  /\ shapes' = Scaled(i, scale)
  /\ bodies' = [bodies EXCEPT ![i] = Placed(@, place + shapes[i].offset)]
  /\ UNCHANGED <<system, gravity>>

SetTransform(i, place, scale) ==
  LET s == bodies[i].desc.shape
  IN  /\ shapes' = Scaled(s, scale)
      /\ bodies' = [bodies EXCEPT ![i] = Placed(@, place + shapes[s].offset)]
      /\ UNCHANGED <<system, gravity>>

SetWorldTransform(i, place, scale) == Body(i) /\ SetTransform(i, place, scale)

\* What was read is set again: the scaling of the desc reaches Bullet's shape, and
\* a body ahead of its motion state goes back to it.
RefreshTransform(i) ==
  /\ Body(i)
  /\ SetTransform(i, WorldTransform(bodies[i]).place, WorldTransform(bodies[i]).scale)

Translate(i, by) ==
  /\ Body(i)
  /\ bodies[i].place + by \in Places
  /\ Change(i, Placed(bodies[i], bodies[i].place + by))

\* By a shape's handle, or by a body's for the shape it has.
SetLocalScaling(s, v) ==
  /\ system = "up" /\ s \in DOMAIN shapes
  /\ shapes' = Scaled(s, v)
  /\ UNCHANGED <<system, bodies, gravity>>

SetOffset(s, v) ==
  /\ system = "up" /\ s \in DOMAIN shapes
  /\ shapes' = [shapes EXCEPT ![s].offset = v]
  /\ UNCHANGED <<system, bodies, gravity>>

\* btDiscreteDynamicsWorld::stepSimulation, one substep of a 60th of a second at
\* each update.  A kinematic body goes where its motion state is.  Of the bodies in
\* the list those with mass fall asleep, or they move, woken if need be: the motion
\* state gets the place less the way of a step at the velocity (latency
\* interpolation), where the body was if nothing but its velocity moved it.
Stepped(b, p, m, sleeps) ==
  IF b.kinematic THEN IF Active(b) THEN Placed(b, b.motion) ELSE b
  ELSE IF ~b.simulated THEN b
  ELSE IF sleeps /\ b.activation # "no_sleep" THEN Activation(b, "sleeping")
  ELSE IF b.static THEN Activation(b, "active")
  ELSE [Activation(b, "active") EXCEPT !.place = p, !.motion = m, !.carried = TRUE]

Update ==
  /\ system = "up"
  /\ \E to, seen \in [DOMAIN bodies -> Places], sleepers \in SUBSET DOMAIN bodies :
       bodies' = [i \in DOMAIN bodies |-> Stepped(bodies[i], to[i], seen[i], i \in sleepers)]
  /\ UNCHANGED <<system, shapes, gravity>>

Descs == [mass : Masses, attrs : [Attrs -> AttrValues], shape : DOMAIN shapes]

Next ==
  \/ New \/ Shutdown \/ Update
  \/ \E v \in AttrValues : SetGravity(v)
  \/ \E t \in Types \cup {Empty}, o \in Offsets, v \in Scales : AddShape(t, o, v)
  \/ \E d \in Descs, fs \in SUBSET Flags : AddBody(d, fs)
  \/ \E i \in DOMAIN bodies :
       \/ \E m \in Masses : SetMass(i, m)
       \/ \E a \in Attrs, v \in AttrValues : SetAttr(i, a, v)
       \/ \E f \in Flags, on \in BOOLEAN : SetFlag(i, f, on)
       \/ \E on \in BOOLEAN : SetAwake(i, on)
       \/ ApplyForce(i) \/ ClearForces(i) \/ RefreshTransform(i)
       \/ \E p \in Places, v \in Scales : SetWorldTransform(i, p, v)
       \/ \E by \in Places : Translate(i, by)
  \/ \E s \in DOMAIN shapes, v \in Scales : SetLocalScaling(s, v)
  \/ \E s \in DOMAIN shapes, v \in Offsets : SetOffset(s, v)

Spec == Init /\ [][Next]_vars
-----------------------------------------------------------------------------
TypeOK ==
  /\ system \in {"none", "up", "down"}
  /\ \A s \in DOMAIN shapes :
       shapes[s] \in [type : Types \cup {Empty}, offset : Offsets, desc_scale : Scales, scale : Scales]
  /\ \A i \in DOMAIN bodies : bodies[i].desc \in Descs

\* What Bullet holds of an attribute is what the desc says, dampings clamped; but
\* for gravity, where a simulated body may have the world's.
AttrsFit(b) ==
  \A a \in Attrs :
    IF a = "gravity" THEN b.attrs[a] = b.desc.attrs[a] \/ b.simulated
    ELSE b.attrs[a] = Held(a, b.desc.attrs[a])

\* The program's copy of a body and Bullet's agree, whatever setters ran in
\* whatever order: the same mass and attributes, static exactly without mass, no
\* inertia exactly for a body without mass or shape.  Its motion state, which the
\* program reads, is the place Bullet collides it at, unless a simulation step was
\* the last to move it: after a call that places it, for a body that was made
\* without mass, and from the step on that finds it kinematic.  And a shape's
\* scaling is the desc's, or still the one it was made with.
CopiesAgree ==
  /\ TypeOK
  /\ \A i \in DOMAIN bodies :
       LET b == bodies[i]
       IN  /\ b.mass = b.desc.mass /\ AttrsFit(b)
           /\ b.static <=> b.mass = 0
           /\ b.inertia = NoInertia <=> b.mass = 0 \/ shapes[b.desc.shape].type = Empty
           /\ b.motion = b.place \/ (b.carried /\ b.simulated)
  /\ \A s \in DOMAIN shapes : shapes[s].scale \in {1, shapes[s].desc_scale}

\* Between simulation steps a call moves or scales bodies of one shape only: all
\* that share the shape of the body it was meant for, and no others.
OneShapeChanges ==
  [][\/ \A i, j \in {k \in DOMAIN bodies' \cap DOMAIN bodies :
                      WorldTransform(bodies[k])' # WorldTransform(bodies[k])} :
          bodies[i].desc.shape = bodies[j].desc.shape
     \/ Update]_vars

\* A body that was made without mass never moves by itself, whatever mass it is
\* given later, for only add_body puts bodies on the list to simulate; and one
\* that was kinematic once never sleeps again, for activate() cannot end what
\* DISABLE_DEACTIVATION began.
MadeForGood ==
  [][\A i \in DOMAIN bodies \cap DOMAIN bodies' :
       /\ bodies'[i].place # bodies[i].place \/ bodies'[i].motion # bodies[i].motion =>
            bodies[i].simulated \/ ~Update
       /\ bodies[i].kinematic => bodies[i].activation = "no_sleep"
       /\ bodies[i].activation = "no_sleep" => bodies'[i].activation = "no_sleep"]_vars
=============================================================================
