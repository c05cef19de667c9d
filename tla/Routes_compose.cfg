SPECIFICATION Spec
CONSTANTS
  page = page
  simulator = simulator
  Clients <- TwoClients
PROPERTY ComposedAlertsReachThePipeline
