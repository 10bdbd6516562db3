------------------------------ MODULE MCDrivers ------------------------------
(* The three drivers that the experiment task polls share no state: a       *)
(* behaviour of this module is one of the codec, of the capture or of the   *)
(* motor, while the other two rest.                                         *)
EXTENDS Codec, Capture, Stepper

VARIABLE part

driversVars == <<codecVars, captureVars, stepperVars, part>>

DriversInit ==
  /\ CodecInit /\ CaptureInit /\ StepperInit
  /\ part \in {"CODEC", "CAPTURE", "MOTOR"}

AtCodec == part = "CODEC" /\ UNCHANGED <<captureVars, stepperVars, part>>
AtCapture == part = "CAPTURE" /\ UNCHANGED <<codecVars, stepperVars, part>>
AtMotor == part = "MOTOR" /\ UNCHANGED <<codecVars, captureVars, part>>

DriversNext ==
  \/ CodecNext /\ AtCodec
  \/ CaptureNext /\ AtCapture
  \/ StepperNext /\ AtMotor

(* The fairness of the three modules, for the one that runs.                *)
DriversFairness ==
  /\ WF_driversVars(\/ CodecTask /\ AtCodec
                    \/ CaptureTask /\ AtCapture
                    \/ StepperRuns /\ AtMotor)
  /\ WF_driversVars((CodecTick /\ AtCodec) \/ (CaptureTick /\ AtCapture))
  /\ SF_driversVars(StepperTick /\ AtMotor)

DriversSpec == DriversInit /\ [][DriversNext]_driversVars /\ DriversFairness

Waiting ==
  \/ speaker.state = "CONFIGURING" \/ mic.state = "CAPTURING"
  \/ stepper.state = "MOVING"

(* No device can keep the experiment task waiting: the start-up of the      *)
(* codec ends whatever the IIC controller does, a capture without its DMA   *)
(* interrupt is given up, a move ends whatever the Tic and the bus do.      *)
NothingHangs == Waiting ~> ~Waiting
=============================================================================
