SPECIFICATION Spec
CONSTANTS
  PinLevels = {0, 250, 400}
  ChargingPasses = 2
  Commands = {"NORMAL"}
  Colors = {"TEST_LED_RED"}
  LearnResults = {"IR_LEARN_OK"}
  Restored = {"SETUP", "NORMAL_CHARGING"}
INVARIANTS BluetoothUnconfigured
PROPERTIES ResetIsHonoured ChargingFollowsPin
