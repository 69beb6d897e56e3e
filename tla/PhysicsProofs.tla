---------------------------- MODULE PhysicsProofs ----------------------------
(***************************************************************************)
(* What the program knows of its bodies and what Bullet knows of them      *)
(* agree, for any shapes, masses, places and number of bodies.  A body is  *)
(* a wide record and every operation changes a few of its fields, so each  *)
(* helper gets a lemma that says which it keeps.                           *)
(***************************************************************************)
EXTENDS Physics, TLAPS

ShapeRecs ==
  [type : Types \cup {Empty}, offset : Offsets, desc_scale : Scales, scale : Scales]

Activations == {"active", "sleeping", "no_sleep"}

BodyRecs ==
  [desc : [mass : Masses, attrs : [Attrs -> AttrValues], shape : Nat],
   mass : Masses, static : BOOLEAN, attrs : [Attrs -> Int],
   inertia : Nat \X Nat, kinematic : BOOLEAN, no_contact : BOOLEAN, ccd : BOOLEAN,
   swept : BOOLEAN, activation : Activations, simulated : BOOLEAN,
   place : Int, motion : Int, carried : BOOLEAN]

\* A body of which the two copies agree; weightless says whether its shape has
\* no inertia whatever its mass.
Agrees(b, weightless) ==
  /\ b.mass = b.desc.mass
  /\ AttrsFit(b)
  /\ b.static <=> b.mass = 0
  /\ b.inertia = NoInertia <=> b.mass = 0 \/ weightless
  /\ b.motion = b.place \/ (b.carried /\ b.simulated)
  /\ b.kinematic => b.activation = "no_sleep"

Weightless(s) == shapes[s].type = Empty

TypesHold ==
  /\ system \in {"none", "up", "down"}
  /\ shapes \in Seq(ShapeRecs)
  /\ bodies \in Seq(BodyRecs)
  /\ gravity \in Int

ShapesHold ==
  \A s \in DOMAIN shapes : shapes[s].scale \in {1, shapes[s].desc_scale}

BodiesHold ==
  \A i \in DOMAIN bodies :
    /\ bodies[i].desc.shape \in DOMAIN shapes
    /\ Agrees(bodies[i], Weightless(bodies[i].desc.shape))

Inv == TypesHold /\ ShapesHold /\ BodiesHold
-----------------------------------------------------------------------------
(* What the helpers keep of a body. *)

\* All that Agrees reads, but for kinematics.
SameCopies(b, c) ==
  /\ c.desc = b.desc
  /\ c.mass = b.mass
  /\ c.static = b.static
  /\ c.attrs = b.attrs
  /\ c.inertia = b.inertia
  /\ c.simulated = b.simulated

SamePlace(b, c) == c.place = b.place /\ c.motion = b.motion /\ c.carried = b.carried

\* A body whose deactivation is disabled stays so.
Stays(b, c) == b.activation = "no_sleep" => c.activation = "no_sleep"

Keeps(b, c) ==
  /\ c \in BodyRecs
  /\ SameCopies(b, c)
  /\ SamePlace(b, c)
  /\ Stays(b, c)

\* Attributes fit as long as nobody sets one.
LEMMA AttrsStay ==
  ASSUME NEW b, NEW c, AttrsFit(b), c.attrs = b.attrs, c.desc.attrs = b.desc.attrs,
         c.simulated = b.simulated
  PROVE  AttrsFit(c)
BY DEF AttrsFit

LEMMA KeepsTrans ==
  ASSUME NEW b, NEW c, NEW d, Keeps(b, c), Keeps(c, d)
  PROVE  Keeps(b, d)
BY DEF Keeps, SameCopies, SamePlace, Stays

LEMMA KeepsSelf ==
  ASSUME NEW b \in BodyRecs
  PROVE  Keeps(b, b)
BY DEF Keeps, SameCopies, SamePlace, Stays

LEMMA ActivationKeeps ==
  ASSUME NEW b \in BodyRecs, NEW state \in Activations
  PROVE  /\ Keeps(b, Activation(b, state))
         /\ Activation(b, state).kinematic = b.kinematic
BY DEF Keeps, SameCopies, SamePlace, Stays, Activation, BodyRecs

LEMMA ActivatedKeeps ==
  ASSUME NEW b \in BodyRecs, NEW force \in BOOLEAN
  PROVE  /\ Keeps(b, Activated(b, force))
         /\ Activated(b, force).kinematic = b.kinematic
BY ActivationKeeps, KeepsSelf DEF Activated, Activations

LEMMA WithKinematicKeeps ==
  ASSUME NEW b \in BodyRecs, NEW on \in BOOLEAN
  PROVE  /\ Keeps(b, WithKinematic(b, on))
         /\ WithKinematic(b, on).kinematic => on
         /\ on => WithKinematic(b, on).activation = "no_sleep"
<1> DEFINE k(v) == [b EXCEPT !.kinematic = v]
<1>1. ASSUME NEW v \in BOOLEAN
      PROVE  Keeps(b, k(v)) /\ k(v) \in BodyRecs /\ k(v).kinematic = v
  BY DEF Keeps, SameCopies, SamePlace, Stays, BodyRecs
<1> HIDE DEF k
<1>2. CASE on
  <2>1. WithKinematic(b, on) = Activation(k(TRUE), "no_sleep")
    BY <1>2 DEF WithKinematic, k
  <2>2. /\ Keeps(k(TRUE), Activation(k(TRUE), "no_sleep"))
        /\ Activation(k(TRUE), "no_sleep").kinematic = TRUE
    BY <1>1, ActivationKeeps DEF Activations
  <2>3. Activation(k(TRUE), "no_sleep").activation = "no_sleep"
    BY <1>1 DEF Activation, BodyRecs
  <2> QED
    BY <1>1, <1>2, <2>1, <2>2, <2>3, KeepsTrans
<1>3. CASE ~on /\ b.kinematic
  <2>1. WithKinematic(b, on) = Activated(k(FALSE), TRUE)
    BY <1>3 DEF WithKinematic, k
  <2>2. /\ Keeps(k(FALSE), Activated(k(FALSE), TRUE))
        /\ Activated(k(FALSE), TRUE).kinematic = FALSE
    BY <1>1, ActivatedKeeps
  <2> QED
    BY <1>1, <1>3, <2>1, <2>2, KeepsTrans
<1>4. CASE ~on /\ ~b.kinematic
  BY <1>4, KeepsSelf DEF WithKinematic
<1> QED
  BY <1>2, <1>3, <1>4

LEMMA WithFlagKeeps ==
  ASSUME NEW b \in BodyRecs, NEW on \in BOOLEAN
  PROVE  /\ Keeps(b, WithTrigger(b, on)) /\ WithTrigger(b, on).kinematic = b.kinematic
         /\ Keeps(b, WithCcd(b, on)) /\ WithCcd(b, on).kinematic = b.kinematic
<1>1. b.swept \/ on \in BOOLEAN
  BY DEF BodyRecs
<1> QED
  BY <1>1 DEF Keeps, SameCopies, SamePlace, Stays, WithTrigger, WithCcd, BodyRecs

LEMMA KeptAgrees ==
  ASSUME NEW b, NEW c, NEW weightless, Agrees(b, weightless), Keeps(b, c),
         c.kinematic = b.kinematic
  PROVE  Agrees(c, weightless)
BY AttrsStay DEF Agrees, Keeps, SameCopies, SamePlace, Stays

\* After each of them a kinematic body never sleeps, if that was so before.
LEMMA FlagsAgree ==
  ASSUME NEW b \in BodyRecs, NEW on \in BOOLEAN, NEW f \in Flags, NEW weightless,
         Agrees(b, weightless)
  PROVE  Keeps(b, WithFlag(b, f, on)) /\ Agrees(WithFlag(b, f, on), weightless)
<1>1. f \in {"trigger", "kinematic", "ccd"}
  BY PhysicsAssumption
<1>2. CASE f = "kinematic"
  <2>1. WithFlag(b, f, on) = WithKinematic(b, on)
    BY <1>2 DEF WithFlag
  <2> QED
    BY <2>1, WithKinematicKeeps, AttrsStay DEF Agrees, Keeps, SameCopies, SamePlace
<1>3. CASE f = "trigger"
  <2>1. WithFlag(b, f, on) = WithTrigger(b, on)
    BY <1>3 DEF WithFlag
  <2> QED
    BY <2>1, WithFlagKeeps, KeptAgrees
<1>4. CASE f = "ccd"
  <2>1. WithFlag(b, f, on) = WithCcd(b, on)
    BY <1>4 DEF WithFlag
  <2> QED
    BY <2>1, WithFlagKeeps, KeptAgrees
<1> QED
  BY <1>1, <1>2, <1>3, <1>4
-----------------------------------------------------------------------------
(* What a change of mass, of an attribute or of place does to a body. *)

\* The inertia that is calculated for a shape is none just when it should be.
LEMMA InertiaFits ==
  ASSUME TypesHold, NEW s \in DOMAIN shapes, NEW m \in Masses
  PROVE  /\ Inertia(s, m) \in Nat \X Nat
         /\ Inertia(s, m) = NoInertia <=> m = 0 \/ Weightless(s)
<1>1. shapes[s] \in ShapeRecs
  BY DEF TypesHold
<1>2. shapes[s].scale \in Nat /\ m \in Nat
  BY <1>1, PhysicsAssumption DEF ShapeRecs
<1> QED
  BY <1>2 DEF Inertia, NoInertia, Weightless

LEMMA WithMassAgrees ==
  ASSUME TypesHold, NEW b \in BodyRecs, NEW m \in Masses, b.desc.shape \in DOMAIN shapes,
         Agrees(b, Weightless(b.desc.shape))
  PROVE  LET c == WithMass(b, m)
         IN  /\ c \in BodyRecs
             /\ c.desc.shape = b.desc.shape
             /\ Agrees(c, Weightless(b.desc.shape))
             /\ SamePlace(b, c) /\ Stays(b, c)
<1> DEFINE n == Inertia(b.desc.shape, m)
           c == [b EXCEPT !.desc.mass = m, !.mass = m, !.static = m = 0, !.inertia = n]
<1>1. n \in Nat \X Nat /\ (n = NoInertia <=> m = 0 \/ Weightless(b.desc.shape))
  BY InertiaFits
<1>2. WithMass(b, m) = c
  BY DEF WithMass
<1> HIDE DEF n
<1>3. /\ c \in BodyRecs
      /\ c.desc.mass = m /\ c.mass = m
      /\ c.static = (m = 0)
      /\ c.inertia = n
      /\ c.desc.shape = b.desc.shape /\ c.desc.attrs = b.desc.attrs /\ c.attrs = b.attrs
      /\ c.kinematic = b.kinematic /\ c.activation = b.activation /\ c.simulated = b.simulated
      /\ c.place = b.place /\ c.motion = b.motion /\ c.carried = b.carried
  BY <1>1 DEF BodyRecs
<1> HIDE DEF c
<1>4. AttrsFit(c)
  BY <1>3, AttrsStay DEF Agrees
<1> QED
  BY <1>1, <1>2, <1>3, <1>4 DEF Agrees, SamePlace, Stays

LEMMA AttrAgrees ==
  ASSUME NEW b \in BodyRecs, NEW a \in Attrs, NEW v \in AttrValues, NEW weightless,
         Agrees(b, weightless)
  PROVE  LET c == [b EXCEPT !.desc.attrs[a] = v, !.attrs[a] = Held(a, v)]
         IN  /\ c \in BodyRecs
             /\ c.desc.shape = b.desc.shape
             /\ Agrees(c, weightless)
             /\ SamePlace(b, c) /\ Stays(b, c)
<1> DEFINE h == Held(a, v)
           c == [b EXCEPT !.desc.attrs[a] = v, !.attrs[a] = h]
<1>0. h \in Int
  BY PhysicsAssumption DEF Held, Clamped
<1>3. h = Held(a, v)
  OBVIOUS
<1> HIDE DEF h
<1>1. /\ c \in BodyRecs
      /\ c.desc.mass = b.desc.mass /\ c.mass = b.mass
      /\ c.static = b.static
      /\ c.inertia = b.inertia
      /\ c.desc.shape = b.desc.shape
      /\ c.desc.attrs = [b.desc.attrs EXCEPT ![a] = v]
      /\ c.attrs = [b.attrs EXCEPT ![a] = h]
      /\ c.kinematic = b.kinematic /\ c.activation = b.activation /\ c.simulated = b.simulated
      /\ c.place = b.place /\ c.motion = b.motion /\ c.carried = b.carried
  BY <1>0 DEF BodyRecs
<1> HIDE DEF c
<1>4. AttrsFit(c)
  <2> SUFFICES ASSUME NEW x \in Attrs
               PROVE  IF x = "gravity" THEN c.attrs[x] = c.desc.attrs[x] \/ c.simulated
                      ELSE c.attrs[x] = Held(x, c.desc.attrs[x])
    BY DEF AttrsFit
  <2>1. /\ c.attrs[x] = IF x = a THEN h ELSE b.attrs[x]
        /\ c.desc.attrs[x] = IF x = a THEN v ELSE b.desc.attrs[x]
    BY <1>1 DEF BodyRecs
  <2>2. IF x = "gravity" THEN b.attrs[x] = b.desc.attrs[x] \/ b.simulated
        ELSE b.attrs[x] = Held(x, b.desc.attrs[x])
    BY DEF Agrees, AttrsFit
  <2>3. a = "gravity" => h = v
    BY <1>3 DEF Held
  <2> QED  BY <1>1, <1>3, <2>1, <2>2, <2>3
<1>2. c \in BodyRecs /\ c.desc.shape = b.desc.shape /\ Agrees(c, weightless)
        /\ SamePlace(b, c) /\ Stays(b, c)
  BY <1>1, <1>4 DEF Agrees, SamePlace, Stays
<1> QED
  BY <1>2 DEF c, h

\* The world's gravity, for a simulated body.
LEMMA GravityAgrees ==
  ASSUME NEW b \in BodyRecs, NEW v \in Int, NEW weightless, Agrees(b, weightless), b.simulated
  PROVE  LET c == WithGravity(b, v)
         IN  /\ c \in BodyRecs
             /\ c.desc = b.desc
             /\ Agrees(c, weightless)
             /\ SamePlace(b, c) /\ Stays(b, c)
<1> DEFINE f == [a \in Attrs |-> IF a = "gravity" THEN v ELSE b.attrs[a]]
           c == [b EXCEPT !.attrs = f]
<1>1. c = WithGravity(b, v)
  BY DEF WithGravity
<1>2. f \in [Attrs -> Int] /\ \A a \in Attrs : f[a] = IF a = "gravity" THEN v ELSE b.attrs[a]
  BY DEF BodyRecs
<1> HIDE DEF f
<1>3. /\ c \in BodyRecs /\ c.desc = b.desc /\ c.mass = b.mass /\ c.static = b.static
      /\ c.inertia = b.inertia /\ c.attrs = f /\ c.simulated = b.simulated
      /\ c.kinematic = b.kinematic /\ c.activation = b.activation
      /\ c.place = b.place /\ c.motion = b.motion /\ c.carried = b.carried
  BY <1>2 DEF BodyRecs
<1> HIDE DEF c
<1>4. AttrsFit(c)
  BY <1>2, <1>3 DEF AttrsFit, Agrees
<1> QED
  BY <1>1, <1>3, <1>4 DEF Agrees, SamePlace, Stays

LEMMA PlacedAgrees ==
  ASSUME NEW b \in BodyRecs, NEW p \in Int, NEW weightless
  PROVE  /\ Placed(b, p) \in BodyRecs
         /\ SameCopies(b, Placed(b, p))
         /\ Stays(b, Placed(b, p))
         /\ Agrees(b, weightless) => Agrees(Placed(b, p), weightless)
<1> DEFINE c == Placed(b, p)
<1>1. /\ c \in BodyRecs /\ SameCopies(b, c) /\ Stays(b, c)
      /\ c.kinematic = b.kinematic /\ c.activation = b.activation
      /\ c.motion = p /\ c.place = p
  BY DEF Placed, BodyRecs, SameCopies, Stays
<1> HIDE DEF c
<1>2. Agrees(b, weightless) => AttrsFit(c)
  BY <1>1, AttrsStay DEF SameCopies, Agrees
<1>3. Agrees(b, weightless) => Agrees(c, weightless)
  BY <1>1, <1>2 DEF SameCopies, Agrees
<1> QED
  BY <1>1, <1>3 DEF c

\* One body in a simulation step.  A kinematic body that is not simulated is where
\* its motion state is already.
LEMMA SteppedAgrees ==
  ASSUME NEW b \in BodyRecs, NEW p \in Int, NEW m \in Int, NEW sleeps \in BOOLEAN,
         NEW weightless, Agrees(b, weightless)
  PROVE  LET c == Stepped(b, p, m, sleeps)
         IN  /\ c \in BodyRecs
             /\ c.desc = b.desc
             /\ Agrees(c, weightless)
             /\ Stays(b, c)
             /\ ~b.simulated => c.motion = b.motion /\ c.place = b.place
<1> DEFINE c == Stepped(b, p, m, sleeps)
<1>1. CASE b.kinematic /\ Active(b)
  <2>1. c = Placed(b, b.motion) /\ b.motion \in Int
    BY <1>1 DEF Stepped, BodyRecs
  <2>2. c.motion = b.motion /\ c.place = b.motion
    BY <2>1 DEF Placed, BodyRecs
  <2> HIDE DEF c
  <2>3. c \in BodyRecs /\ c.desc = b.desc /\ Agrees(c, weightless) /\ Stays(b, c)
    BY <2>1, PlacedAgrees DEF SameCopies
  <2>4. ~b.simulated => b.motion = b.place
    BY DEF Agrees
  <2> QED
    BY <2>2, <2>3, <2>4 DEF c
<1>2. CASE (b.kinematic /\ ~Active(b)) \/ (~b.kinematic /\ ~b.simulated)
  <2>1. c = b
    BY <1>2 DEF Stepped
  <2> QED
    BY <2>1 DEF Stays
<1>3. ASSUME ~b.kinematic, b.simulated, NEW state \in Activations, c = Activation(b, state)
      PROVE  /\ c \in BodyRecs /\ c.desc = b.desc /\ Agrees(c, weightless) /\ Stays(b, c)
  <2> HIDE DEF c
  <2> QED
    BY <1>3, ActivationKeeps, KeptAgrees DEF Keeps, SameCopies
<1>4. CASE ~b.kinematic /\ b.simulated /\ c = Activation(b, "sleeping")
  BY <1>3, <1>4 DEF Activations
<1>5. CASE ~b.kinematic /\ b.simulated /\ c = Activation(b, "active")
  BY <1>3, <1>5 DEF Activations
<1>6. ASSUME ~b.kinematic, b.simulated, NEW a, a = Activation(b, "active"),
             c = [a EXCEPT !.place = p, !.motion = m, !.carried = TRUE]
      PROVE  /\ c \in BodyRecs /\ c.desc = b.desc /\ Agrees(c, weightless) /\ Stays(b, c)
  <2> HIDE DEF c
  <2>1. Keeps(b, a) /\ a.kinematic = b.kinematic /\ a \in BodyRecs
    BY <1>6, ActivationKeeps DEF Activations, Keeps
  <2>2. /\ c \in BodyRecs /\ SameCopies(a, c) /\ c.kinematic = a.kinematic
        /\ c.activation = a.activation /\ c.carried
    BY <1>6, <2>1 DEF BodyRecs, SameCopies
  <2>3. SameCopies(b, c) /\ Stays(b, c) /\ ~c.kinematic
    BY <1>6, <2>1, <2>2 DEF Keeps, SameCopies, Stays
  <2>4. AttrsFit(c)
    BY <2>3, AttrsStay DEF SameCopies, Agrees
  <2> QED
    BY <1>6, <2>2, <2>3, <2>4 DEF SameCopies, Agrees
<1>7. CASE ~b.kinematic /\ b.simulated
            /\ c = [Activation(b, "active") EXCEPT !.place = p, !.motion = m, !.carried = TRUE]
  BY <1>6, <1>7
<1>8. CASE ~b.kinematic /\ b.simulated
  <2>1. \/ c = Activation(b, "sleeping") \/ c = Activation(b, "active")
        \/ c = [Activation(b, "active") EXCEPT !.place = p, !.motion = m, !.carried = TRUE]
    BY <1>8 DEF Stepped
  <2> HIDE DEF c
  <2> QED
    BY <1>4, <1>5, <1>7, <1>8, <2>1 DEF c
<1> QED
  BY <1>1, <1>2, <1>8
-----------------------------------------------------------------------------
(* The steps. *)

StaysAll == \A j \in DOMAIN bodies \cap DOMAIN bodies' : Stays(bodies[j], bodies'[j])

\* All bodies a step moves or scales have one shape.
OneShape ==
  \E s : \A j \in DOMAIN bodies \cap DOMAIN bodies' :
    WorldTransform(bodies[j])' # WorldTransform(bodies[j]) => bodies[j].desc.shape = s

StepHolds == Inv' /\ StaysAll /\ OneShape

\* A call that gives one body other fields.
LEMMA ChangeStep ==
  ASSUME Inv, NEW i \in DOMAIN bodies, NEW c \in BodyRecs,
         c.desc.shape = bodies[i].desc.shape,
         Agrees(c, Weightless(bodies[i].desc.shape)), Stays(bodies[i], c),
         Change(i, c)
  PROVE  StepHolds
<1>1. /\ bodies' = [bodies EXCEPT ![i] = c]
      /\ shapes' = shapes /\ system' = system /\ gravity' = gravity
      /\ bodies \in Seq(BodyRecs)
  BY DEF Change, Inv, TypesHold
<1>2. /\ bodies' \in Seq(BodyRecs)
      /\ DOMAIN bodies' = DOMAIN bodies
      /\ bodies'[i] = c
      /\ \A j \in DOMAIN bodies : j # i => bodies'[j] = bodies[j]
  BY <1>1
<1>3. Inv'
  <2>1. TypesHold' /\ ShapesHold'
    BY <1>1, <1>2 DEF Inv, TypesHold, ShapesHold
  <2>2. BodiesHold'
    BY <1>1, <1>2 DEF Inv, BodiesHold, Weightless
  <2> QED
    BY <2>1, <2>2 DEF Inv
<1>4. StaysAll
  BY <1>2 DEF StaysAll, Stays
<1>5. \A j \in DOMAIN bodies \cap DOMAIN bodies' :
        WorldTransform(bodies[j])' # WorldTransform(bodies[j]) =>
          bodies[j].desc.shape = bodies[i].desc.shape
  BY <1>1, <1>2 DEF WorldTransform
<1> QED
  BY <1>3, <1>4, <1>5 DEF StepHolds, OneShape

\* A call that changes one shape, and moves at most one body that has it.
LEMMA ShapeStep ==
  ASSUME Inv, NEW s \in DOMAIN shapes, NEW r \in ShapeRecs,
         r.type = shapes[s].type, r.scale \in {1, r.desc_scale},
         shapes' = [shapes EXCEPT ![s] = r], system' = system, gravity' = gravity,
         \/ bodies' = bodies
         \/ \E i \in DOMAIN bodies, p \in Int :
              /\ bodies[i].desc.shape = s
              /\ bodies' = [bodies EXCEPT ![i] = Placed(@, p)]
  PROVE  StepHolds
<1>1. /\ shapes \in Seq(ShapeRecs) /\ bodies \in Seq(BodyRecs)
  BY DEF Inv, TypesHold
<1>2. /\ shapes' \in Seq(ShapeRecs)
      /\ DOMAIN shapes' = DOMAIN shapes
      /\ shapes'[s] = r
      /\ \A t \in DOMAIN shapes : t # s => shapes'[t] = shapes[t]
  BY <1>1
<1>3. /\ bodies' \in Seq(BodyRecs)
      /\ DOMAIN bodies' = DOMAIN bodies
      /\ \A j \in DOMAIN bodies :
           \/ bodies'[j] = bodies[j]
           \/ bodies[j].desc.shape = s /\ \E p \in Int : bodies'[j] = Placed(bodies[j], p)
  <2>1. CASE bodies' = bodies
    BY <1>1, <2>1
  <2>2. ASSUME NEW i \in DOMAIN bodies, NEW p \in Int, bodies[i].desc.shape = s,
               bodies' = [bodies EXCEPT ![i] = Placed(@, p)]
        PROVE  <1>3!1 /\ <1>3!2 /\ <1>3!3
    <3>1. bodies[i] \in BodyRecs
      BY <1>1
    <3>2. Placed(bodies[i], p) \in BodyRecs
      BY <3>1, PlacedAgrees
    <3> QED
      BY <1>1, <2>2, <3>2
  <2> QED
    BY <2>1, <2>2
<1>4. ASSUME NEW j \in DOMAIN bodies
      PROVE  /\ bodies'[j].desc = bodies[j].desc
             /\ Stays(bodies[j], bodies'[j])
             /\ \A w : Agrees(bodies[j], w) => Agrees(bodies'[j], w)
  <2>1. bodies[j] \in BodyRecs
    BY <1>1
  <2> QED
    BY <1>3, <2>1, PlacedAgrees DEF SameCopies, Stays
<1>5. \A t \in DOMAIN shapes : shapes'[t].type = shapes[t].type
  BY <1>2
<1>6. Inv'
  <2>1. TypesHold'
    BY <1>2, <1>3 DEF Inv, TypesHold
  <2>2. ShapesHold'
    BY <1>2 DEF Inv, ShapesHold
  <2>3. BodiesHold'
    BY <1>2, <1>3, <1>4, <1>5 DEF Inv, BodiesHold, Weightless
  <2> QED
    BY <2>1, <2>2, <2>3 DEF Inv
<1>7. StaysAll
  BY <1>4 DEF StaysAll
<1>8. ASSUME NEW j \in DOMAIN bodies, bodies[j].desc.shape # s
      PROVE  WorldTransform(bodies[j])' = WorldTransform(bodies[j])
  <2>1. bodies[j].desc.shape \in DOMAIN shapes
    BY DEF Inv, BodiesHold
  <2>2. bodies'[j] = bodies[j] /\ shapes'[bodies[j].desc.shape] = shapes[bodies[j].desc.shape]
    BY <1>2, <1>3, <1>8, <2>1
  <2> QED
    BY <2>2 DEF WorldTransform
<1>9. OneShape
  BY <1>8 DEF OneShape
<1> QED
  BY <1>6, <1>7, <1>9 DEF StepHolds

LEMMA AddShapeStep ==
  ASSUME Inv, NEW t \in Types \cup {Empty}, NEW o \in Offsets, NEW v \in Scales,
         AddShape(t, o, v)
  PROVE  StepHolds
<1> DEFINE r == [type |-> IF t \in Types THEN t ELSE Empty,
                 offset |-> o, desc_scale |-> v, scale |-> 1]
<1>1. /\ shapes' = Append(shapes, r) /\ bodies' = bodies
      /\ system' = system /\ gravity' = gravity
  BY DEF AddShape
<1>2. r \in ShapeRecs
  BY PhysicsAssumption DEF ShapeRecs
<1>3. r.scale = 1
  OBVIOUS
<1> HIDE DEF r
<1>4. shapes \in Seq(ShapeRecs)
  BY DEF Inv, TypesHold
<1>5. /\ shapes' \in Seq(ShapeRecs)
      /\ \A s \in DOMAIN shapes : s \in DOMAIN shapes' /\ shapes'[s] = shapes[s]
      /\ \A s \in DOMAIN shapes' : s \in DOMAIN shapes \/ shapes'[s] = r
  BY <1>1, <1>2, <1>4
<1>6. TypesHold' /\ ShapesHold'
  BY <1>1, <1>3, <1>5 DEF Inv, TypesHold, ShapesHold
<1>7. BodiesHold'
  BY <1>1, <1>5 DEF Inv, BodiesHold, Weightless
<1>8. StaysAll
  BY <1>1 DEF StaysAll, Stays
<1>9. OneShape
  BY <1>1, <1>5 DEF OneShape, WorldTransform, Inv, BodiesHold
<1> QED
  BY <1>6, <1>7, <1>8, <1>9 DEF StepHolds, Inv

LEMMA AddBodyStep ==
  ASSUME Inv, NEW d \in Descs, NEW fs \in SUBSET Flags, AddBody(d, fs)
  PROVE  StepHolds
<1> DEFINE made == [desc |-> d, mass |-> d.mass, static |-> d.mass = 0,
                    attrs |-> [a \in Attrs |-> Held(a, d.attrs[a])], inertia |-> Inertia(d.shape, d.mass),
                    kinematic |-> FALSE, no_contact |-> FALSE, ccd |-> FALSE, swept |-> FALSE,
                    activation |-> "active", simulated |-> d.mass # 0,
                    place |-> 0, motion |-> 0, carried |-> FALSE]
           trigger == "trigger" \in fs
           kinematic == "kinematic" \in fs
           ccd == "ccd" \in fs
           flagged == WithCcd(WithKinematic(WithTrigger(made, trigger), kinematic), ccd)
           active == Activated(flagged, TRUE)
           b == IF active.static THEN Activation(active, "sleeping")
                ELSE IF active.kinematic THEN active ELSE WithGravity(active, gravity)
           w == Weightless(d.shape)
<1>1. /\ bodies' = Append(bodies, b)
      /\ shapes' = shapes /\ system' = system /\ gravity' = gravity
      /\ d.shape \in DOMAIN shapes
  BY DEF AddBody
<1>2. made \in BodyRecs /\ Agrees(made, w) /\ ~made.kinematic /\ (made.static \/ made.simulated)
  <2>1. /\ Inertia(d.shape, d.mass) \in Nat \X Nat
        /\ Inertia(d.shape, d.mass) = NoInertia <=> d.mass = 0 \/ w
    BY <1>1, InertiaFits DEF Inv, Descs
  <2>2. shapes \in Seq(ShapeRecs) /\ d.shape \in Nat
    BY <1>1 DEF Inv, TypesHold
  <2>3. d \in [mass : Masses, attrs : [Attrs -> AttrValues], shape : Nat]
    BY <2>2 DEF Descs
  <2> DEFINE n == Inertia(d.shape, d.mass)
             h == [a \in Attrs |-> Held(a, d.attrs[a])]
  <2>6. h \in [Attrs -> Int]
    <3>1. ASSUME NEW a \in Attrs PROVE Held(a, d.attrs[a]) \in Int
      <4>1. d.attrs[a] \in Int
        BY <2>3, PhysicsAssumption
      <4> QED
        BY <4>1 DEF Held, Clamped
    <3> QED
      BY <3>1
  <2>7. \A a \in Attrs : h[a] = Held(a, d.attrs[a]) /\ (a = "gravity" => h[a] = d.attrs[a])
    BY DEF Held
  <2> HIDE DEF n, w, h
  <2>4. made \in BodyRecs
    BY <2>1, <2>3, <2>6 DEF BodyRecs, Activations, n, h
  <2>8. AttrsFit(made)
    BY <2>7 DEF AttrsFit, h
  <2>5. Agrees(made, w) /\ ~made.kinematic /\ (made.static \/ made.simulated)
    BY <2>1, <2>3, <2>8 DEF Agrees, n
  <2> QED
    BY <2>4, <2>5
<1> HIDE DEF made, w
<1>3. /\ Keeps(made, flagged)
      /\ flagged \in BodyRecs
      /\ flagged.kinematic => flagged.activation = "no_sleep"
  <2> DEFINE x == WithTrigger(made, trigger)
             y == WithKinematic(x, kinematic)
  <2>1. trigger \in BOOLEAN /\ kinematic \in BOOLEAN /\ ccd \in BOOLEAN
    OBVIOUS
  <2>2. flagged = WithCcd(y, ccd)
    OBVIOUS
  <2> HIDE DEF trigger, kinematic, ccd, flagged
  <2>3. Keeps(made, x) /\ x \in BodyRecs
    BY <1>2, <2>1, WithFlagKeeps DEF Keeps
  <2> HIDE DEF x
  <2>4. Keeps(x, y) /\ y \in BodyRecs /\ (y.kinematic => y.activation = "no_sleep")
    BY <2>1, <2>3, WithKinematicKeeps DEF Keeps
  <2> HIDE DEF y
  <2>5. Keeps(y, flagged) /\ flagged.kinematic = y.kinematic /\ flagged \in BodyRecs
    BY <2>1, <2>2, <2>4, WithFlagKeeps DEF Keeps
  <2>6. Keeps(made, flagged)
    BY <2>3, <2>4, <2>5, KeepsTrans
  <2> QED
    BY <2>4, <2>5, <2>6 DEF Keeps, Stays
<1> HIDE DEF flagged
<1>4. /\ Keeps(made, active) /\ active \in BodyRecs /\ active.desc = d
      /\ Agrees(active, w) /\ (active.static \/ active.simulated)
  <2>1. Keeps(flagged, active) /\ active \in BodyRecs /\ active.kinematic = flagged.kinematic
    BY <1>3, ActivatedKeeps DEF Keeps
  <2> HIDE DEF active
  <2>2. Keeps(made, active)
    BY <1>3, <2>1, KeepsTrans
  <2>3. active.kinematic => active.activation = "no_sleep"
    BY <1>3, <2>1 DEF Keeps, Stays
  <2>4. AttrsFit(active)
    BY <1>2, <2>2, AttrsStay DEF Keeps, SameCopies, Agrees
  <2>5. made.desc = d
    BY DEF made
  <2> QED
    BY <1>2, <2>1, <2>2, <2>3, <2>4, <2>5 DEF Keeps, SameCopies, SamePlace, Agrees
<1> HIDE DEF active
<1>5. b \in BodyRecs /\ b.desc = d /\ Agrees(b, w)
  <2>1. CASE active.static
    <3>1. b = Activation(active, "sleeping")
      BY <2>1
    <3> HIDE DEF b
    <3> QED
      BY <1>4, <3>1, ActivationKeeps, KeptAgrees DEF Activations, Keeps, SameCopies
  <2>2. CASE ~active.static /\ active.kinematic
    BY <1>4, <2>2
  <2>3. CASE ~active.static /\ ~active.kinematic
    <3>1. b = WithGravity(active, gravity) /\ gravity \in Int
      BY <2>3 DEF Inv, TypesHold
    <3> HIDE DEF b
    <3> QED
      BY <1>4, <2>3, <3>1, GravityAgrees
  <2> QED
    BY <2>1, <2>2, <2>3
<1> HIDE DEF b
<1>6. bodies \in Seq(BodyRecs)
  BY DEF Inv, TypesHold
<1>7. /\ bodies' \in Seq(BodyRecs)
      /\ \A j \in DOMAIN bodies : j \in DOMAIN bodies' /\ bodies'[j] = bodies[j]
      /\ \A j \in DOMAIN bodies' : j \in DOMAIN bodies \/ bodies'[j] = b
  BY <1>1, <1>5, <1>6
<1>8. TypesHold' /\ ShapesHold'
  BY <1>1, <1>7 DEF Inv, TypesHold, ShapesHold
<1>9. BodiesHold'
  BY <1>1, <1>5, <1>7 DEF Inv, BodiesHold, Weightless, w
<1>10. StaysAll
  BY <1>7 DEF StaysAll, Stays
<1>11. OneShape
  BY <1>1, <1>7 DEF OneShape, WorldTransform
<1> QED
  BY <1>8, <1>9, <1>10, <1>11 DEF StepHolds, Inv

\* The calls on one body.
LEMMA BodyStep ==
  ASSUME Inv, NEW i \in DOMAIN bodies,
         \/ \E m \in Masses : SetMass(i, m)
         \/ \E a \in Attrs, v \in AttrValues : SetAttr(i, a, v)
         \/ \E f \in Flags, on \in BOOLEAN : SetFlag(i, f, on)
         \/ \E on \in BOOLEAN : SetAwake(i, on)
         \/ ApplyForce(i) \/ ClearForces(i)
         \/ \E by \in Places : Translate(i, by)
  PROVE  StepHolds
<1> DEFINE b == bodies[i]
           w == Weightless(b.desc.shape)
<1>1. b \in BodyRecs /\ b.desc.shape \in DOMAIN shapes /\ Agrees(b, w)
  BY DEF Inv, TypesHold, BodiesHold
<1>2. ASSUME NEW c, Keeps(b, c), c.kinematic = b.kinematic, Change(i, c)
      PROVE  StepHolds
  <2>1. c \in BodyRecs /\ c.desc.shape = b.desc.shape /\ Agrees(c, w) /\ Stays(b, c)
    BY <1>1, <1>2, KeptAgrees DEF Keeps, SameCopies
  <2> QED
    BY <1>2, <2>1, ChangeStep
<1>3. ASSUME NEW m \in Masses, Change(i, WithMass(b, m))
      PROVE  StepHolds
  BY <1>1, <1>3, WithMassAgrees, ChangeStep DEF Inv
<1>4. ASSUME NEW m \in Masses, SetMass(i, m)
      PROVE  StepHolds
  BY <1>3, <1>4 DEF SetMass
<1>5. ASSUME NEW a \in Attrs, NEW v \in AttrValues, SetAttr(i, a, v)
      PROVE  StepHolds
  BY <1>1, <1>5, AttrAgrees, ChangeStep DEF SetAttr
<1>6. ASSUME NEW f \in Flags, NEW on \in BOOLEAN, SetFlag(i, f, on)
      PROVE  StepHolds
  <2>1. Keeps(b, WithFlag(b, f, on)) /\ Agrees(WithFlag(b, f, on), w)
    BY <1>1, FlagsAgree
  <2> QED
    BY <1>6, <2>1, ChangeStep DEF SetFlag, Keeps, SameCopies
<1>7. ASSUME NEW on \in BOOLEAN, SetAwake(i, on)
      PROVE  StepHolds
  BY <1>1, <1>2, <1>7, ActivatedKeeps DEF SetAwake
<1>8. CASE ApplyForce(i)
  <2>1. Change(i, IF Active(b) THEN b ELSE Activated(b, TRUE))
    BY <1>8 DEF ApplyForce
  <2> QED
    BY <1>1, <1>2, <2>1, ActivatedKeeps, KeepsSelf
<1>9. CASE ClearForces(i)
  <2>1. b.desc.mass \in Masses
    BY <1>1 DEF BodyRecs
  <2> QED
    BY <1>3, <1>9, <2>1 DEF ClearForces
<1>10. ASSUME NEW by \in Places, Translate(i, by)
       PROVE  StepHolds
  <2>1. b.place + by \in Int
    BY <1>10, PhysicsAssumption DEF Translate
  <2> DEFINE c == Placed(b, b.place + by)
  <2>2. c \in BodyRecs /\ c.desc.shape = b.desc.shape /\ Agrees(c, w) /\ Stays(b, c)
    BY <1>1, <2>1, PlacedAgrees DEF SameCopies
  <2>3. Change(i, c)
    BY <1>10 DEF Translate
  <2> QED
    BY <2>2, <2>3, ChangeStep
<1> QED
  BY <1>4, <1>5, <1>6, <1>7, <1>8, <1>9, <1>10

\* The calls that scale or move a shape.
LEMMA SetTransformStep ==
  ASSUME Inv, NEW i \in DOMAIN bodies, NEW place \in Int, NEW v \in Scales,
         SetTransform(i, place, v)
  PROVE  StepHolds
<1> DEFINE s == bodies[i].desc.shape
           r == [shapes[s] EXCEPT !.desc_scale = v, !.scale = v]
<1>1. s \in DOMAIN shapes /\ shapes \in Seq(ShapeRecs)
  BY DEF Inv, TypesHold, BodiesHold
<1>2. shapes[s] \in ShapeRecs
  BY <1>1
<1>3. /\ r \in ShapeRecs
      /\ r.type = shapes[s].type
      /\ r.scale \in {1, r.desc_scale}
  BY <1>2 DEF ShapeRecs
<1>4. shapes' = [shapes EXCEPT ![s] = r]
  BY <1>1, <1>2 DEF SetTransform, Scaled, ShapeRecs
<1>5. place + shapes[s].offset \in Int
  <2>1. shapes[s].offset \in Int
    BY <1>2, PhysicsAssumption DEF ShapeRecs
  <2> QED
    BY <2>1
<1>6. /\ bodies' = [bodies EXCEPT ![i] = Placed(@, place + shapes[s].offset)]
      /\ system' = system /\ gravity' = gravity
  BY DEF SetTransform
<1> QED
  BY <1>1, <1>3, <1>4, <1>5, <1>6, ShapeStep

LEMMA TransformStep ==
  ASSUME Inv, NEW i \in DOMAIN bodies,
         RefreshTransform(i) \/ \E p \in Places, v \in Scales : SetWorldTransform(i, p, v)
  PROVE  StepHolds
<1>1. CASE RefreshTransform(i)
  <2> DEFINE b == bodies[i]
  <2>1. b \in BodyRecs /\ shapes[b.desc.shape] \in ShapeRecs
    BY DEF Inv, TypesHold, BodiesHold
  <2>2. b.motion \in Int /\ shapes[b.desc.shape].offset \in Int
           /\ shapes[b.desc.shape].desc_scale \in Scales
    BY <2>1, PhysicsAssumption DEF BodyRecs, ShapeRecs
  <2>3. WorldTransform(b).place \in Int /\ WorldTransform(b).scale \in Scales
    BY <2>2 DEF WorldTransform
  <2> QED
    BY <1>1, <2>3, SetTransformStep DEF RefreshTransform
<1>2. ASSUME NEW p \in Places, NEW v \in Scales, SetWorldTransform(i, p, v)
      PROVE  StepHolds
  BY <1>2, SetTransformStep, PhysicsAssumption DEF SetWorldTransform
<1> QED
  BY <1>1, <1>2

LEMMA ScalingStep ==
  ASSUME Inv, NEW s \in DOMAIN shapes,
         \/ \E v \in Scales : SetLocalScaling(s, v)
         \/ \E v \in Offsets : SetOffset(s, v)
  PROVE  StepHolds
<1>1. shapes \in Seq(ShapeRecs)
  BY DEF Inv, TypesHold
<1>2. shapes[s] \in ShapeRecs /\ shapes[s].scale \in {1, shapes[s].desc_scale}
  BY <1>1 DEF Inv, ShapesHold
<1>3. ASSUME NEW v \in Scales, SetLocalScaling(s, v)
      PROVE  StepHolds
  <2> DEFINE r == [shapes[s] EXCEPT !.desc_scale = v, !.scale = v]
  <2>1. /\ r \in ShapeRecs
        /\ r.type = shapes[s].type
        /\ r.scale \in {1, r.desc_scale}
    BY <1>2 DEF ShapeRecs
  <2>2. /\ shapes' = [shapes EXCEPT ![s] = r] /\ bodies' = bodies
        /\ system' = system /\ gravity' = gravity
    BY <1>1, <1>2, <1>3 DEF SetLocalScaling, Scaled, ShapeRecs
  <2> QED
    BY <2>1, <2>2, ShapeStep
<1>4. ASSUME NEW v \in Offsets, SetOffset(s, v)
      PROVE  StepHolds
  <2> DEFINE r == [shapes[s] EXCEPT !.offset = v]
  <2>1. /\ r \in ShapeRecs
        /\ r.type = shapes[s].type
        /\ r.scale \in {1, r.desc_scale}
    BY <1>2 DEF ShapeRecs
  <2>2. /\ shapes' = [shapes EXCEPT ![s] = r] /\ bodies' = bodies
        /\ system' = system /\ gravity' = gravity
    BY <1>1, <1>2, <1>4 DEF SetOffset, ShapeRecs
  <2> QED
    BY <2>1, <2>2, ShapeStep
<1> QED
  BY <1>3, <1>4

\* A simulation step moves bodies of any shapes, but none it does not simulate.
LEMMA UpdateStep ==
  ASSUME Inv, Update
  PROVE  /\ Inv' /\ StaysAll
         /\ \A i \in DOMAIN bodies :
              ~bodies[i].simulated =>
                bodies'[i].motion = bodies[i].motion /\ bodies'[i].place = bodies[i].place
<1>1. shapes' = shapes /\ system' = system /\ gravity' = gravity /\ bodies \in Seq(BodyRecs)
  BY DEF Update, Inv, TypesHold
<1>2. PICK to \in [DOMAIN bodies -> Places], seen \in [DOMAIN bodies -> Places],
           sleepers \in SUBSET DOMAIN bodies :
        bodies' = [i \in DOMAIN bodies |-> Stepped(bodies[i], to[i], seen[i], i \in sleepers)]
  BY DEF Update
<1>3. ASSUME NEW i \in DOMAIN bodies
      PROVE  /\ bodies'[i] \in BodyRecs
             /\ bodies'[i].desc = bodies[i].desc
             /\ Agrees(bodies'[i], Weightless(bodies[i].desc.shape))
             /\ Stays(bodies[i], bodies'[i])
             /\ ~bodies[i].simulated =>
                  bodies'[i].motion = bodies[i].motion /\ bodies'[i].place = bodies[i].place
  <2>1. bodies[i] \in BodyRecs /\ Agrees(bodies[i], Weightless(bodies[i].desc.shape))
    BY <1>1 DEF Inv, BodiesHold
  <2>2. PICK sleeps \in BOOLEAN : sleeps <=> i \in sleepers
    <3>1. CASE i \in sleepers
      BY <3>1, TRUE \in BOOLEAN
    <3>2. CASE i \notin sleepers
      BY <3>2, FALSE \in BOOLEAN
    <3> QED
      BY <3>1, <3>2
  <2>3. to[i] \in Int /\ seen[i] \in Int
    BY <1>2, PhysicsAssumption
  <2>4. bodies'[i] = Stepped(bodies[i], to[i], seen[i], sleeps)
    BY <1>2, <2>2
  <2> QED
    BY <2>1, <2>3, <2>4, SteppedAgrees
<1>4. DOMAIN bodies' = DOMAIN bodies /\ bodies' \in Seq(BodyRecs)
  BY <1>1, <1>2, <1>3
<1>5. TypesHold' /\ ShapesHold'
  BY <1>1, <1>4 DEF Inv, TypesHold, ShapesHold
<1>6. BodiesHold'
  BY <1>1, <1>3, <1>4 DEF Inv, BodiesHold, Weightless
<1> QED
  BY <1>3, <1>5, <1>6 DEF Inv, StaysAll

\* The world's gravity moves nothing by itself.
LEMMA GravityStep ==
  ASSUME Inv, NEW v \in AttrValues, SetGravity(v)
  PROVE  StepHolds
<1>1. /\ shapes' = shapes /\ system' = system /\ gravity' = v /\ v \in Int
      /\ bodies \in Seq(BodyRecs)
  BY PhysicsAssumption DEF SetGravity, Inv, TypesHold
<1>2. bodies' = [i \in DOMAIN bodies |->
                   IF bodies[i].simulated /\ Active(bodies[i]) THEN WithGravity(bodies[i], v)
                   ELSE bodies[i]]
  BY DEF SetGravity
<1>3. ASSUME NEW i \in DOMAIN bodies
      PROVE  /\ bodies'[i] \in BodyRecs
             /\ bodies'[i].desc = bodies[i].desc
             /\ Agrees(bodies'[i], Weightless(bodies[i].desc.shape))
             /\ Stays(bodies[i], bodies'[i])
             /\ bodies'[i].motion = bodies[i].motion
  <2>1. bodies[i] \in BodyRecs /\ Agrees(bodies[i], Weightless(bodies[i].desc.shape))
    BY <1>1 DEF Inv, BodiesHold
  <2>2. CASE bodies[i].simulated /\ Active(bodies[i])
    <3>1. bodies'[i] = WithGravity(bodies[i], v)
      BY <1>2, <2>2
    <3> QED
      BY <1>1, <2>1, <2>2, <3>1, GravityAgrees DEF SamePlace
  <2>3. CASE ~(bodies[i].simulated /\ Active(bodies[i]))
    <3>1. bodies'[i] = bodies[i]
      BY <1>2, <2>3
    <3> QED
      BY <2>1, <3>1 DEF Stays
  <2> QED
    BY <2>2, <2>3
<1>4. DOMAIN bodies' = DOMAIN bodies /\ bodies' \in Seq(BodyRecs)
  BY <1>1, <1>2, <1>3
<1>5. TypesHold' /\ ShapesHold'
  BY <1>1, <1>4 DEF Inv, TypesHold, ShapesHold
<1>6. BodiesHold'
  BY <1>1, <1>3, <1>4 DEF Inv, BodiesHold, Weightless
<1>7. StaysAll
  BY <1>3 DEF StaysAll
<1>8. \A i \in DOMAIN bodies : WorldTransform(bodies[i])' = WorldTransform(bodies[i])
  BY <1>1, <1>3 DEF WorldTransform
<1>9. OneShape
  BY <1>8 DEF OneShape
<1> QED
  BY <1>5, <1>6, <1>7, <1>9 DEF Inv, StepHolds

LEMMA InitInv == Init => Inv
BY PhysicsAssumption DEF Init, Inv, TypesHold, ShapesHold, BodiesHold

LEMMA NextHolds ==
  ASSUME Inv, Next
  PROVE  Inv' /\ StaysAll /\ (OneShape \/ Update)
<1>1. CASE New
  <2>1. shapes' = shapes /\ bodies' = bodies /\ system' = "up" /\ gravity' = gravity
    BY <1>1 DEF New
  <2>2. TypesHold' /\ ShapesHold' /\ BodiesHold'
    BY <2>1 DEF Inv, TypesHold, ShapesHold, BodiesHold, Weightless
  <2> QED
    BY <2>1, <2>2 DEF Inv, StaysAll, Stays, OneShape, WorldTransform
<1>2. CASE Shutdown
  <2>1. shapes' = <<>> /\ bodies' = <<>> /\ system' = "down" /\ gravity' = gravity
    BY <1>2 DEF Shutdown
  <2>2. DOMAIN shapes' = {} /\ DOMAIN bodies' = {}
    BY <2>1
  <2> QED
    BY <2>1, <2>2 DEF Inv, TypesHold, ShapesHold, BodiesHold, StaysAll, OneShape
<1>3. CASE Update
  BY <1>3, UpdateStep
<1>4. ASSUME NEW t \in Types \cup {Empty}, NEW o \in Offsets, NEW v \in Scales,
             AddShape(t, o, v)
      PROVE  StepHolds
  BY <1>4, AddShapeStep
<1>5. ASSUME NEW d \in Descs, NEW fs \in SUBSET Flags, AddBody(d, fs)
      PROVE  StepHolds
  BY <1>5, AddBodyStep
<1>6. ASSUME NEW v \in AttrValues, SetGravity(v)
      PROVE  StepHolds
  BY <1>6, GravityStep
<1> QED
  BY <1>1, <1>2, <1>3, <1>4, <1>5, <1>6, BodyStep, TransformStep, ScalingStep DEF Next, StepHolds
-----------------------------------------------------------------------------
\* The inductive invariant.
THEOREM Invariance == Spec => []Inv
<1>1. Inv /\ [Next]_vars => Inv'
  <2>1. ASSUME Inv, UNCHANGED vars
        PROVE  Inv'
    <3>1. shapes' = shapes /\ bodies' = bodies /\ system' = system /\ gravity' = gravity
      BY <2>1 DEF vars
    <3> QED
      BY <2>1, <3>1 DEF Inv, TypesHold, ShapesHold, BodiesHold, Weightless
  <2> QED
    BY <2>1, NextHolds
<1> QED
  BY <1>1, InitInv, PTL DEF Spec

\* The program's copies of bodies and shapes and Bullet's agree, whatever
\* setters and simulation steps ran (core/gs_core_physics.cpp).
THEOREM CopiesAgreeHolds == Spec => []CopiesAgree
<1>1. Inv => CopiesAgree
  <2> SUFFICES ASSUME Inv PROVE CopiesAgree
    OBVIOUS
  <2>1. shapes \in Seq(ShapeRecs) /\ bodies \in Seq(BodyRecs)
    BY DEF Inv, TypesHold
  <2>2. \A s \in DOMAIN shapes : shapes[s] \in ShapeRecs
    BY <2>1
  <2>3. ASSUME NEW i \in DOMAIN bodies
        PROVE  bodies[i].desc \in Descs
    <3>1. bodies[i] \in BodyRecs /\ bodies[i].desc.shape \in DOMAIN shapes
      BY <2>1 DEF Inv, BodiesHold
    <3> QED
      BY <3>1 DEF BodyRecs, Descs
  <2>4. TypeOK
    BY <2>2, <2>3 DEF TypeOK, Inv, TypesHold, ShapeRecs
  <2> QED
    BY <2>4 DEF CopiesAgree, Inv, ShapesHold, BodiesHold, Agrees, Weightless
<1> QED
  BY <1>1, Invariance, PTL

\* Between simulation steps a call moves or scales bodies of one shape only.
THEOREM OneShapeChangesHolds == Spec => OneShapeChanges
<1>1. Inv /\ [Next]_vars =>
        [\/ \A i, j \in {k \in DOMAIN bodies' \cap DOMAIN bodies :
                           WorldTransform(bodies[k])' # WorldTransform(bodies[k])} :
               bodies[i].desc.shape = bodies[j].desc.shape
         \/ Update]_vars
  BY NextHolds DEF OneShape
<1> QED
  BY <1>1, Invariance, PTL DEF Spec, OneShapeChanges

\* A body made without mass never moves by itself, and one that was kinematic
\* once never sleeps again.
THEOREM MadeForGoodHolds == Spec => MadeForGood
<1>1. Inv /\ [Next]_vars =>
        [\A i \in DOMAIN bodies \cap DOMAIN bodies' :
           /\ bodies'[i].place # bodies[i].place \/ bodies'[i].motion # bodies[i].motion =>
                bodies[i].simulated \/ ~Update
           /\ bodies[i].kinematic => bodies[i].activation = "no_sleep"
           /\ bodies[i].activation = "no_sleep" => bodies'[i].activation = "no_sleep"]_vars
  BY NextHolds, UpdateStep DEF Inv, BodiesHold, Agrees, StaysAll, Stays
<1> QED
  BY <1>1, Invariance, PTL DEF Spec, MadeForGood
=============================================================================
